---------------------------- MODULE Spec2Model ----------------------------
(***************************************************************************)
(* A model of the name reconciliation and write-back code of the planter   *)
(* repository (src/python): the scientific-name canonicalizer, the         *)
(* candidate selection policies, the synonym fallback chain, the gating    *)
(* rule and the staging of display-name patches and synonym records, the   *)
(* chunk-shrink-and-retry read loop and the batched synonym upsert.        *)
(*                                                                         *)
(* Each part of the program has its own group of variables and its own     *)
(* specification (SpecCanon, SpecShrink, ...); a specification leaves the  *)
(* variables of the other parts at their idle values.                      *)
(***************************************************************************)
EXTENDS Integers, Sequences, FiniteSets, TLC

VARIABLES
    \* ---- canon_binomial ----
    cnPc,       \* "in" | "once" | "twice"
    cnIn,       \* the raw string, a sequence of characters
    cnOnce,     \* canon_binomial(cnIn), per source variant
    cnTwice,    \* canon_binomial(cnOnce), per source variant
    \* ---- _parallel_upsert_synonyms ----
    upPc,       \* "pool" (jobs submitted) | "done" (total returned)
    upVariant,  \* "dwca" (enrich_gbif_dwca.py, plantbook.py) | "ingest"
    upRows,     \* the argument rows
    upBatch,    \* the argument batch
    upStatus,   \* per chunk: "pending" | "ok" | "failed" (the upsert raised)
    upReqs,     \* per chunk: the list handed to upsert(...) (<<>> before)
    upCollected,\* the chunks whose future the caller has consumed
    upSent,     \* the caller's running total
    \* ---- _fetch_scientific_synonyms / _safe_in_select ----
    shPc,       \* "loop" | "done"
    shFn,       \* "fetch" (_fetch_scientific_synonyms) | "safe" (_safe_in_select)
    shN,        \* n: the number of ids (the ids are 1..n)
    shI,        \* i: the start of the window (0-based, as in the code)
    shStart,    \* the size the loop started with
    shSize,     \* size: the current chunk size
    shCover,    \* per id: the number of successful requests that held it
    shFail1,    \* the ids whose request of size 1 failed as too large
    shSkipSize, \* per id: the size of the failed window it was skipped with (0: not skipped)
    shOther,    \* TRUE once a request failed with another error
    shIter,     \* the turns of the while loop so far
    \* ---- the synonym fallback of one entity (enrich_inat, enrich_itis, enrich_gbif) ----
    chPc,       \* "fetch" | "primary" | "syn" | "batch" | "done"
    chPass,     \* "inat" | "itis" | "gbif"
    chLimit,    \* per_plant (GBIF_SYNONYM_LIMIT)
    chDb,       \* the names of the entity's scientific synonym rows in the store
    chSyn,      \* syn_map.get(pid, [])
    chPrimary,  \* the outcome of the attempt on the entity's own name (-1: not made)
    chTried,    \* the indexes into chSyn of the synonyms attempted, in order
    chOut,      \* the outcomes of those attempts
    chAttempts, \* the number of resolution attempts made
    chResult,   \* the name the chain ends with (None: no usable name)
    \* ---- the selection of the best common name, run on two orders of one set ----
    slPc,       \* "run1" | "run2" | "done"
    slPolicy,   \* "dwca" | "plantbook" | "wikidata"
    slAllowAny, \* allow_any_lang_fallback
    slCands,    \* the candidates in the order of the first run
    slCands2,   \* the same candidates in the order of the second run
    slPos,      \* rows of the vernacular stream consumed in the current run
    slBest,     \* best_by_key[k]: None or <<score, name, locale>>
    slBestAny,  \* best_any_by_key[k]
    slWin1,     \* the winner of the first run: None or <<name, locale>>
    slWin2,     \* the winner of the second run
    \* ---- one entity through one enrichment pass: gate, then staging ----
    enPc,         \* "gate" | "stage" | "done"
    enPass,       \* "dwca" | "plantbook" | "gbif" | "wikidata" | "inat" | "itis" | "usda"
    enForce,      \* force (enrich_from_backbone and enrich_from_plantbook only)
    enSetDisplay, \* the pass's *_SET_DISPLAY flag
    enSci,        \* plant_scientific_name as read
    enName,       \* plant_name as read
    enAvail,      \* the best common name the source holds for the entity
    enSelected,   \* the gate's decision
    enUpdate,     \* the staged plant_name patch (None: no patch)
    enSyns,       \* the names of the staged synonym records
    \* ---- _parallel_update_plants ----
    udPc,        \* "pool" (jobs submitted) | "done" (total returned)
    udPairs,     \* the argument pairs: payload TRUE for a non-empty patch
    udBatch,     \* the argument batch
    udPos,       \* per chunk: the rows of the chunk its job has gone through
    udN,         \* per chunk: the job's n
    udAttempts,  \* per row: the update calls made for it
    udOk,        \* the rows whose update call succeeded
    udSbFailed,  \* the chunks whose job could not open its client
    udCollected, \* the chunks whose future the caller has consumed
    udUpdated,   \* the caller's running total
    \* ---- \* the write-back step run twice against the store ----
    wbPc,      \* idle, r1 (first application), r2 (second application), done
    wbVariant, \* whose _parallel_upsert_synonyms: dwca or ingest
    wbPairs,   \* the entity patches: (plant id, payload)
    wbRows,    \* the synonym records
    wbBatch,   \* the synonym chunk size
    wbPlants,  \* the table plants: id -> row
    wbSyn,     \* the table plant_synonyms, in insertion order
    wbTodo,    \* the units of the current application still to run
    wbSnap,    \* the two tables as they were after the first application
    wbClean,   \* TRUE while no request of the first application failed
    \* ---- the page loop of a run with a max_rows budget ----
    bgPc,        \* idle, scan (reading pages), apply (dwca: pages read), done
    bgFn,        \* ingest (enrich_gbif, _wikidata, _inat, _itis) or dwca
    bgMax,       \* the argument max_rows
    bgPages,     \* per page of plants: the rows of the page that pass the gate
    bgPage,      \* the pages read so far
    bgNeed,      \* dwca: len(need_rows)
    bgProcessed, \* ingest: the counter processed
    bgLookups,   \* the candidates handed to the lookups so far
    bgWritten,   \* the rows whose update was written so far
    \* ---- one entity of a page of enrich_gbif and its usage key ----
    gkPc,         \* idle, match, build (Phase A), alt (Phase B), done
    gkCached,     \* the row's gbif_usage_key, 0 for none
    gkMatch,      \* the answer of the name match: miss, nokey or key
    gkCommon,     \* the best common name under the entity's key: none, sci or good
    gkAlt,        \* TRUE when a synonym of the entity leads to a usable common name
    gkAllowed,    \* the columns of ALLOWED_PLANT_FIELDS
    gkKey,        \* key_by_pid[pid], 0 for none
    gkInMatchMap, \* pid in canonical_by_pid
    gkUpdates,    \* the entity's entries in updates
    \* ---- one call of a remote-registry getter ----
    htPc,     \* idle, loop (in the retry loop), done
    htFn,     \* _aget, _inat_get, _itis_get or gbif_match
    htTries,  \* the number of turns of the retry loop
    htI,      \* the loop variable i
    htLog,    \* the answers received so far: a status, or 0 for a transport error
    htResult, \* none (no return yet), json or miss
    \* ---- the start of a run and its connectivity query ----
    stPc,      \* idle, start, ready (command about to run), running, aborted, crashed, finished
    stProg,    \* plantbook, ingest (plants_ingest.py main) or dwca
    stCmd,     \* the command or mode of the run
    stPinged,  \* TRUE once the connectivity query was made
    stPingOk,  \* the outcome of the connectivity query
    stLooked,  \* the entities looked up so far
    stWritten, \* the entities written so far
    \* ---- one candidate through the scorer and the locale derivation ----
    scPc,         \* idle, in, scored, again, done
    scName,       \* the candidate name
    scPref,       \* the preferred flag
    scLang,       \* the language code ("" when absent)
    scCountry,    \* the country code ("" when absent)
    scScore,      \* the result of the first call of _pick_score
    scScore2,     \* the result of the second call
    scLocale,     \* the result of _best_locale
    scGbifLocale, \* the locale _pick_best_common_name derives
    \* ---- the taxon pass of enrich_from_backbone over one dump ----
    txPc,     \* idle, scan (reading rows), done
    txNeed,   \* need_names: the canonical names of the entities being processed
    txDump,   \* the rows of Taxon.tsv after the header, each as its cells
    txPos,    \* the next row to read
    txIndex,  \* name_to_keys: canonical name -> list of taxon keys
    txTarget, \* target_keys
    \* ---- one run of enrich_from_plantbook ----
    pbPc,         \* idle, collect, discover, search, detail, propose, apply, done
    pbMode,       \* scan_db or scan_pb
    pbTty,        \* sys.stdin.isatty()
    pbN,          \* len(candidates)
    pbI,          \* the index of the candidate in hand
    pbLetter,     \* the index of the letter being discovered
    pbPage,       \* the page of the letter being discovered
    pbCalls,      \* the number of HTTP calls made to the Plantbook registry
    pbLast,       \* the last of the events call and pause (none before the first)
    pbApproveAll, \* approve_all
    pbSkipAll,    \* skip_all
    pbAns,        \* per candidate: the answer at its prompt, auto, or none
    pbApproved,   \* updates_approved, as candidate indexes
    pbWritten,    \* the candidates whose update was handed to the store
    \* ---- one entity through two successive runs of one enrichment pass ----
    rrPc,         \* idle, first, second, done
    rrPass,       \* the enrichment pass
    rrForce,      \* the force option of the first run
    rrSetDisplay, \* the switch that enables display updates
    rrSci,        \* plant_scientific_name of the entity
    rrName,       \* plant_name of the entity in the store
    rrAvail,      \* the best common name the source holds for the entity
    rrSci2raw,    \* the scientific name in the Plantbook detail
    rrWrote,      \* the first run wrote a display name
    rrSelected2,  \* the second run selected the entity
    rrUpdate2,    \* the display name the second run wrote, or None
    \* ---- the main loop of supabase_scrub with an explicit id list ----
    scrPc,     \* idle, loop, done
    scrIds,    \* explicit_ids, in the order given
    scrBatch,  \* args.batch
    scrCursor, \* cursor (0 for None)
    scrCalls,  \* the id lists passed to update_batch, in call order
    \* ---- one batch of enrich_itis: the resolve_one tasks and their caches ----
    itPc,         \* per task: new, wait_sem_tsn, wait_tsn, wait_sem_com, wait_com, done
    itNames,      \* per task: the names still to try, the scientific name first
    itTsn,        \* per task: the tsn in hand (0 for None)
    itChosen,     \* per task: whether a common name was chosen
    itTsnCache,   \* tsn_cache: name -> tsn
    itComCache,   \* name_common_cache: tsn -> whether it has a usable common name
    itSem,        \* free slots of sem
    itSearchSent, \* the names sent to the search endpoint, in order
    itCommonSent, \* the tsns sent to the common-names endpoint, in order
    itRemoteTsn,  \* what ITIS answers for a name (0 for no tsn)
    itRemoteCom   \* whether ITIS has a usable English common name for a tsn

canonVars == <<cnPc, cnIn, cnOnce, cnTwice>>

upsertVars ==
    <<upPc, upVariant, upRows, upBatch, upStatus, upReqs, upCollected, upSent>>

shrinkVars ==
    <<shPc, shFn, shN, shI, shStart, shSize, shCover, shFail1, shSkipSize,
      shOther, shIter>>

chainVars ==
    <<chPc, chPass, chLimit, chDb, chSyn, chPrimary, chTried, chOut,
      chAttempts, chResult>>

selectVars ==
    <<slPc, slPolicy, slAllowAny, slCands, slCands2, slPos, slBest, slBestAny,
      slWin1, slWin2>>

enrichVars ==
    <<enPc, enPass, enForce, enSetDisplay, enSci, enName, enAvail, enSelected,
      enUpdate, enSyns>>

updateVars ==
    <<udPc, udPairs, udBatch, udPos, udN, udAttempts, udOk, udSbFailed,
      udCollected, udUpdated>>

wbVars ==
    <<wbPc, wbVariant, wbPairs, wbRows, wbBatch, wbPlants, wbSyn, wbTodo,
      wbSnap, wbClean>>

budgetVars ==
    <<bgPc, bgFn, bgMax, bgPages, bgPage, bgNeed, bgProcessed, bgLookups,
      bgWritten>>

gkeyVars ==
    <<gkPc, gkCached, gkMatch, gkCommon, gkAlt, gkAllowed, gkKey,
      gkInMatchMap, gkUpdates>>

httpVars ==
    <<htPc, htFn, htTries, htI, htLog, htResult>>

startupVars ==
    <<stPc, stProg, stCmd, stPinged, stPingOk, stLooked, stWritten>>

scoreVars ==
    <<scPc, scName, scPref, scLang, scCountry, scScore, scScore2, scLocale,
      scGbifLocale>>

taxonVars ==
    <<txPc, txNeed, txDump, txPos, txIndex, txTarget>>

pbVars ==
    <<pbPc, pbMode, pbTty, pbN, pbI, pbLetter, pbPage, pbCalls, pbLast,
      pbApproveAll, pbSkipAll, pbAns, pbApproved, pbWritten>>

rerunVars ==
    <<rrPc, rrPass, rrForce, rrSetDisplay, rrSci, rrName, rrAvail,
      rrSci2raw, rrWrote, rrSelected2, rrUpdate2>>

scrubVars ==
    <<scrPc, scrIds, scrBatch, scrCursor, scrCalls>>

itisVars ==
    <<itPc, itNames, itTsn, itChosen, itTsnCache, itComCache, itSem,
      itSearchSent, itCommonSent, itRemoteTsn, itRemoteCom>>

vars ==
    <<canonVars, upsertVars, shrinkVars, chainVars, selectVars, enrichVars,
      updateVars, wbVars, budgetVars, gkeyVars, httpVars, startupVars,
      scoreVars, taxonVars, pbVars, rerunVars, scrubVars, itisVars>>

\* the values a group of variables keeps in the specifications of the others
CanonIdle ==
    /\ cnPc = "idle"
    /\ cnIn = <<>>
    /\ cnOnce = <<>>
    /\ cnTwice = <<>>

UpsertIdle ==
    /\ upPc = "idle"
    /\ upVariant = "dwca"
    /\ upRows = <<>>
    /\ upBatch = 1
    /\ upStatus = <<>>
    /\ upReqs = <<>>
    /\ upCollected = {}
    /\ upSent = 0

ShrinkIdle ==
    /\ shPc = "idle"
    /\ shFn = "fetch"
    /\ shN = 0
    /\ shI = 0
    /\ shStart = 1
    /\ shSize = 1
    /\ shCover = <<>>
    /\ shFail1 = {}
    /\ shSkipSize = <<>>
    /\ shOther = FALSE
    /\ shIter = 0

ChainIdle ==
    /\ chPc = "idle"
    /\ chPass = "inat"
    /\ chLimit = 0
    /\ chDb = <<>>
    /\ chSyn = <<>>
    /\ chPrimary = -1
    /\ chTried = <<>>
    /\ chOut = <<>>
    /\ chAttempts = 0
    /\ chResult = <<>>

SelectIdle ==
    /\ slPc = "idle"
    /\ slPolicy = "dwca"
    /\ slAllowAny = FALSE
    /\ slCands = <<>>
    /\ slCands2 = <<>>
    /\ slPos = 0
    /\ slBest = <<>>
    /\ slBestAny = <<>>
    /\ slWin1 = <<>>
    /\ slWin2 = <<>>

EnrichIdle ==
    /\ enPc = "idle"
    /\ enPass = "dwca"
    /\ enForce = FALSE
    /\ enSetDisplay = FALSE
    /\ enSci = <<>>
    /\ enName = <<>>
    /\ enAvail = <<>>
    /\ enSelected = FALSE
    /\ enUpdate = <<>>
    /\ enSyns = {}

UpdateIdle ==
    /\ udPc = "idle"
    /\ udPairs = <<>>
    /\ udBatch = 1
    /\ udPos = <<>>
    /\ udN = <<>>
    /\ udAttempts = <<>>
    /\ udOk = {}
    /\ udSbFailed = {}
    /\ udCollected = {}
    /\ udUpdated = 0

WbIdle ==
    /\ wbPc = "idle"
    /\ wbVariant = "dwca"
    /\ wbPairs = <<>>
    /\ wbRows = <<>>
    /\ wbBatch = 1
    /\ wbPlants = <<>>
    /\ wbSyn = <<>>
    /\ wbTodo = {}
    /\ wbSnap = <<>>
    /\ wbClean = TRUE

BudgetIdle ==
    /\ bgPc = "idle"
    /\ bgFn = "ingest"
    /\ bgMax = 0
    /\ bgPages = <<>>
    /\ bgPage = 0
    /\ bgNeed = 0
    /\ bgProcessed = 0
    /\ bgLookups = 0
    /\ bgWritten = 0

GkeyIdle ==
    /\ gkPc = "idle"
    /\ gkCached = 0
    /\ gkMatch = "miss"
    /\ gkCommon = "none"
    /\ gkAlt = FALSE
    /\ gkAllowed = {}
    /\ gkKey = 0
    /\ gkInMatchMap = FALSE
    /\ gkUpdates = <<>>

HttpIdle ==
    /\ htPc = "idle"
    /\ htFn = "_aget"
    /\ htTries = 0
    /\ htI = 0
    /\ htLog = <<>>
    /\ htResult = "none"

StartupIdle ==
    /\ stPc = "idle"
    /\ stProg = "ingest"
    /\ stCmd = "enrich-gbif"
    /\ stPinged = FALSE
    /\ stPingOk = TRUE
    /\ stLooked = 0
    /\ stWritten = 0

ScoreIdle ==
    /\ scPc = "idle"
    /\ scName = <<>>
    /\ scPref = FALSE
    /\ scLang = ""
    /\ scCountry = ""
    /\ scScore = 0
    /\ scScore2 = 0
    /\ scLocale = <<>>
    /\ scGbifLocale = <<>>

TaxonIdle ==
    /\ txPc = "idle"
    /\ txNeed = {}
    /\ txDump = <<>>
    /\ txPos = 0
    /\ txIndex = <<>>
    /\ txTarget = {}

PbIdle ==
    /\ pbPc = "idle"
    /\ pbMode = "scan_db"
    /\ pbTty = FALSE
    /\ pbN = 0
    /\ pbI = 0
    /\ pbLetter = 0
    /\ pbPage = 0
    /\ pbCalls = 0
    /\ pbLast = "none"
    /\ pbApproveAll = FALSE
    /\ pbSkipAll = FALSE
    /\ pbAns = <<>>
    /\ pbApproved = <<>>
    /\ pbWritten = {}

RerunIdle ==
    /\ rrPc = "idle"
    /\ rrPass = "dwca"
    /\ rrForce = FALSE
    /\ rrSetDisplay = FALSE
    /\ rrSci = <<"None">>
    /\ rrName = <<"None">>
    /\ rrAvail = <<"None">>
    /\ rrSci2raw = <<>>
    /\ rrWrote = FALSE
    /\ rrSelected2 = FALSE
    /\ rrUpdate2 = <<"None">>

ScrubIdle ==
    /\ scrPc = "idle"
    /\ scrIds = <<>>
    /\ scrBatch = 0
    /\ scrCursor = 0
    /\ scrCalls = <<>>

ItisIdle ==
    /\ itPc = <<>>
    /\ itNames = <<>>
    /\ itTsn = <<>>
    /\ itChosen = <<>>
    /\ itTsnCache = <<>>
    /\ itComCache = <<>>
    /\ itSem = 0
    /\ itSearchSent = <<>>
    /\ itCommonSent = <<>>
    /\ itRemoteTsn = <<>>
    /\ itRemoteCom = <<>>

canonOthers ==
    <<upsertVars, shrinkVars, chainVars, selectVars, enrichVars, updateVars,
      wbVars, budgetVars, gkeyVars, httpVars, startupVars, scoreVars,
      taxonVars, pbVars, rerunVars, scrubVars, itisVars>>

CanonOthersIdle ==
    UpsertIdle /\ ShrinkIdle /\ ChainIdle /\ SelectIdle /\ EnrichIdle /\
    UpdateIdle /\ WbIdle /\ BudgetIdle /\ GkeyIdle /\ HttpIdle /\
    StartupIdle /\ ScoreIdle /\ TaxonIdle /\ PbIdle /\ RerunIdle /\
    ScrubIdle /\ ItisIdle

upsertOthers ==
    <<canonVars, shrinkVars, chainVars, selectVars, enrichVars, updateVars,
      wbVars, budgetVars, gkeyVars, httpVars, startupVars, scoreVars,
      taxonVars, pbVars, rerunVars, scrubVars, itisVars>>

UpsertOthersIdle ==
    CanonIdle /\ ShrinkIdle /\ ChainIdle /\ SelectIdle /\ EnrichIdle /\
    UpdateIdle /\ WbIdle /\ BudgetIdle /\ GkeyIdle /\ HttpIdle /\
    StartupIdle /\ ScoreIdle /\ TaxonIdle /\ PbIdle /\ RerunIdle /\
    ScrubIdle /\ ItisIdle

shrinkOthers ==
    <<canonVars, upsertVars, chainVars, selectVars, enrichVars, updateVars,
      wbVars, budgetVars, gkeyVars, httpVars, startupVars, scoreVars,
      taxonVars, pbVars, rerunVars, scrubVars, itisVars>>

ShrinkOthersIdle ==
    CanonIdle /\ UpsertIdle /\ ChainIdle /\ SelectIdle /\ EnrichIdle /\
    UpdateIdle /\ WbIdle /\ BudgetIdle /\ GkeyIdle /\ HttpIdle /\
    StartupIdle /\ ScoreIdle /\ TaxonIdle /\ PbIdle /\ RerunIdle /\
    ScrubIdle /\ ItisIdle

chainOthers ==
    <<canonVars, upsertVars, shrinkVars, selectVars, enrichVars, updateVars,
      wbVars, budgetVars, gkeyVars, httpVars, startupVars, scoreVars,
      taxonVars, pbVars, rerunVars, scrubVars, itisVars>>

ChainOthersIdle ==
    CanonIdle /\ UpsertIdle /\ ShrinkIdle /\ SelectIdle /\ EnrichIdle /\
    UpdateIdle /\ WbIdle /\ BudgetIdle /\ GkeyIdle /\ HttpIdle /\
    StartupIdle /\ ScoreIdle /\ TaxonIdle /\ PbIdle /\ RerunIdle /\
    ScrubIdle /\ ItisIdle

selectOthers ==
    <<canonVars, upsertVars, shrinkVars, chainVars, enrichVars, updateVars,
      wbVars, budgetVars, gkeyVars, httpVars, startupVars, scoreVars,
      taxonVars, pbVars, rerunVars, scrubVars, itisVars>>

SelectOthersIdle ==
    CanonIdle /\ UpsertIdle /\ ShrinkIdle /\ ChainIdle /\ EnrichIdle /\
    UpdateIdle /\ WbIdle /\ BudgetIdle /\ GkeyIdle /\ HttpIdle /\
    StartupIdle /\ ScoreIdle /\ TaxonIdle /\ PbIdle /\ RerunIdle /\
    ScrubIdle /\ ItisIdle

enrichOthers ==
    <<canonVars, upsertVars, shrinkVars, chainVars, selectVars, updateVars,
      wbVars, budgetVars, gkeyVars, httpVars, startupVars, scoreVars,
      taxonVars, pbVars, rerunVars, scrubVars, itisVars>>

EnrichOthersIdle ==
    CanonIdle /\ UpsertIdle /\ ShrinkIdle /\ ChainIdle /\ SelectIdle /\
    UpdateIdle /\ WbIdle /\ BudgetIdle /\ GkeyIdle /\ HttpIdle /\
    StartupIdle /\ ScoreIdle /\ TaxonIdle /\ PbIdle /\ RerunIdle /\
    ScrubIdle /\ ItisIdle

updateOthers ==
    <<canonVars, upsertVars, shrinkVars, chainVars, selectVars, enrichVars,
      wbVars, budgetVars, gkeyVars, httpVars, startupVars, scoreVars,
      taxonVars, pbVars, rerunVars, scrubVars, itisVars>>

UpdateOthersIdle ==
    CanonIdle /\ UpsertIdle /\ ShrinkIdle /\ ChainIdle /\ SelectIdle /\
    EnrichIdle /\ WbIdle /\ BudgetIdle /\ GkeyIdle /\ HttpIdle /\
    StartupIdle /\ ScoreIdle /\ TaxonIdle /\ PbIdle /\ RerunIdle /\
    ScrubIdle /\ ItisIdle

wbOthers ==
    <<canonVars, upsertVars, shrinkVars, chainVars, selectVars, enrichVars,
      updateVars, budgetVars, gkeyVars, httpVars, startupVars, scoreVars,
      taxonVars, pbVars, rerunVars, scrubVars, itisVars>>

WbOthersIdle ==
    CanonIdle /\ UpsertIdle /\ ShrinkIdle /\ ChainIdle /\ SelectIdle /\
    EnrichIdle /\ UpdateIdle /\ BudgetIdle /\ GkeyIdle /\ HttpIdle /\
    StartupIdle /\ ScoreIdle /\ TaxonIdle /\ PbIdle /\ RerunIdle /\
    ScrubIdle /\ ItisIdle

budgetOthers ==
    <<canonVars, upsertVars, shrinkVars, chainVars, selectVars, enrichVars,
      updateVars, wbVars, gkeyVars, httpVars, startupVars, scoreVars,
      taxonVars, pbVars, rerunVars, scrubVars, itisVars>>

BudgetOthersIdle ==
    CanonIdle /\ UpsertIdle /\ ShrinkIdle /\ ChainIdle /\ SelectIdle /\
    EnrichIdle /\ UpdateIdle /\ WbIdle /\ GkeyIdle /\ HttpIdle /\
    StartupIdle /\ ScoreIdle /\ TaxonIdle /\ PbIdle /\ RerunIdle /\
    ScrubIdle /\ ItisIdle

gkeyOthers ==
    <<canonVars, upsertVars, shrinkVars, chainVars, selectVars, enrichVars,
      updateVars, wbVars, budgetVars, httpVars, startupVars, scoreVars,
      taxonVars, pbVars, rerunVars, scrubVars, itisVars>>

GkeyOthersIdle ==
    CanonIdle /\ UpsertIdle /\ ShrinkIdle /\ ChainIdle /\ SelectIdle /\
    EnrichIdle /\ UpdateIdle /\ WbIdle /\ BudgetIdle /\ HttpIdle /\
    StartupIdle /\ ScoreIdle /\ TaxonIdle /\ PbIdle /\ RerunIdle /\
    ScrubIdle /\ ItisIdle

httpOthers ==
    <<canonVars, upsertVars, shrinkVars, chainVars, selectVars, enrichVars,
      updateVars, wbVars, budgetVars, gkeyVars, startupVars, scoreVars,
      taxonVars, pbVars, rerunVars, scrubVars, itisVars>>

HttpOthersIdle ==
    CanonIdle /\ UpsertIdle /\ ShrinkIdle /\ ChainIdle /\ SelectIdle /\
    EnrichIdle /\ UpdateIdle /\ WbIdle /\ BudgetIdle /\ GkeyIdle /\
    StartupIdle /\ ScoreIdle /\ TaxonIdle /\ PbIdle /\ RerunIdle /\
    ScrubIdle /\ ItisIdle

startupOthers ==
    <<canonVars, upsertVars, shrinkVars, chainVars, selectVars, enrichVars,
      updateVars, wbVars, budgetVars, gkeyVars, httpVars, scoreVars,
      taxonVars, pbVars, rerunVars, scrubVars, itisVars>>

StartupOthersIdle ==
    CanonIdle /\ UpsertIdle /\ ShrinkIdle /\ ChainIdle /\ SelectIdle /\
    EnrichIdle /\ UpdateIdle /\ WbIdle /\ BudgetIdle /\ GkeyIdle /\
    HttpIdle /\ ScoreIdle /\ TaxonIdle /\ PbIdle /\ RerunIdle /\
    ScrubIdle /\ ItisIdle

scoreOthers ==
    <<canonVars, upsertVars, shrinkVars, chainVars, selectVars, enrichVars,
      updateVars, wbVars, budgetVars, gkeyVars, httpVars, startupVars,
      taxonVars, pbVars, rerunVars, scrubVars, itisVars>>

ScoreOthersIdle ==
    CanonIdle /\ UpsertIdle /\ ShrinkIdle /\ ChainIdle /\ SelectIdle /\
    EnrichIdle /\ UpdateIdle /\ WbIdle /\ BudgetIdle /\ GkeyIdle /\
    HttpIdle /\ StartupIdle /\ TaxonIdle /\ PbIdle /\ RerunIdle /\
    ScrubIdle /\ ItisIdle

taxonOthers ==
    <<canonVars, upsertVars, shrinkVars, chainVars, selectVars, enrichVars,
      updateVars, wbVars, budgetVars, gkeyVars, httpVars, startupVars,
      scoreVars, pbVars, rerunVars, scrubVars, itisVars>>

TaxonOthersIdle ==
    CanonIdle /\ UpsertIdle /\ ShrinkIdle /\ ChainIdle /\ SelectIdle /\
    EnrichIdle /\ UpdateIdle /\ WbIdle /\ BudgetIdle /\ GkeyIdle /\
    HttpIdle /\ StartupIdle /\ ScoreIdle /\ PbIdle /\ RerunIdle /\
    ScrubIdle /\ ItisIdle

pbOthers ==
    <<canonVars, upsertVars, shrinkVars, chainVars, selectVars, enrichVars,
      updateVars, wbVars, budgetVars, gkeyVars, httpVars, startupVars,
      scoreVars, taxonVars, rerunVars, scrubVars, itisVars>>

PbOthersIdle ==
    CanonIdle /\ UpsertIdle /\ ShrinkIdle /\ ChainIdle /\ SelectIdle /\
    EnrichIdle /\ UpdateIdle /\ WbIdle /\ BudgetIdle /\ GkeyIdle /\
    HttpIdle /\ StartupIdle /\ ScoreIdle /\ TaxonIdle /\ RerunIdle /\
    ScrubIdle /\ ItisIdle

rerunOthers ==
    <<canonVars, upsertVars, shrinkVars, chainVars, selectVars, enrichVars,
      updateVars, wbVars, budgetVars, gkeyVars, httpVars, startupVars,
      scoreVars, taxonVars, pbVars, scrubVars, itisVars>>

RerunOthersIdle ==
    CanonIdle /\ UpsertIdle /\ ShrinkIdle /\ ChainIdle /\ SelectIdle /\
    EnrichIdle /\ UpdateIdle /\ WbIdle /\ BudgetIdle /\ GkeyIdle /\
    HttpIdle /\ StartupIdle /\ ScoreIdle /\ TaxonIdle /\ PbIdle /\
    ScrubIdle /\ ItisIdle

scrubOthers ==
    <<canonVars, upsertVars, shrinkVars, chainVars, selectVars, enrichVars,
      updateVars, wbVars, budgetVars, gkeyVars, httpVars, startupVars,
      scoreVars, taxonVars, pbVars, rerunVars, itisVars>>

ScrubOthersIdle ==
    CanonIdle /\ UpsertIdle /\ ShrinkIdle /\ ChainIdle /\ SelectIdle /\
    EnrichIdle /\ UpdateIdle /\ WbIdle /\ BudgetIdle /\ GkeyIdle /\
    HttpIdle /\ StartupIdle /\ ScoreIdle /\ TaxonIdle /\ PbIdle /\
    RerunIdle /\ ItisIdle

itisOthers ==
    <<canonVars, upsertVars, shrinkVars, chainVars, selectVars, enrichVars,
      updateVars, wbVars, budgetVars, gkeyVars, httpVars, startupVars,
      scoreVars, taxonVars, pbVars, rerunVars, scrubVars>>

ItisOthersIdle ==
    CanonIdle /\ UpsertIdle /\ ShrinkIdle /\ ChainIdle /\ SelectIdle /\
    EnrichIdle /\ UpdateIdle /\ WbIdle /\ BudgetIdle /\ GkeyIdle /\
    HttpIdle /\ StartupIdle /\ ScoreIdle /\ TaxonIdle /\ PbIdle /\
    RerunIdle /\ ScrubIdle

(***************************************************************************)
(* Strings are sequences of one-character strings.  "T" stands for the     *)
(* multiplication sign U+00D7 (the hybrid marker), which is not a word     *)
(* character.                                                              *)
(***************************************************************************)
Whitespace == {" ", "\n", "\t"}

NonWord == Whitespace \cup {".", "T", "-"}

IsWord(c) == c \notin NonWord

\* str.lower() on the letters the model uses
Lower(c) ==
    CASE c = "F" -> "f"
      [] c = "S" -> "s"
      [] c = "V" -> "v"
      [] c = "C" -> "c"
      [] c = "A" -> "a"
      [] c = "R" -> "r"
      [] c = "U" -> "u"
      [] c = "B" -> "b"
      [] c = "P" -> "p"
      [] OTHER -> c

\* the character class of the first re.sub: [×x] in plantbook.py and
\* plants_ingest.py
HybridChars == {"T", "x"}

\* enrich_gbif_dwca.py holds the class as the three characters
\* U+00C3, U+2014 and x ("A~" and "--" stand for the first two)
HybridCharsDwca == {"A~", "--", "x"}

\* the alternatives of the second re.sub, matched with re.I
RankMarkers ==
    { <<"s","u","b","s","p",".">>, <<"s","s","p",".">>, <<"v","a","r",".">>,
      <<"f",".">>, <<"c","v",".">> }

RECURSIVE SkipWs(_, _)
\* \s* : the first index >= i of s that holds no whitespace (Len(s)+1 if none)
SkipWs(s, i) ==
    IF i > Len(s) \/ s[i] \notin Whitespace THEN i ELSE SkipWs(s, i + 1)

RECURSIVE RemoveHybridFrom(_, _, _)
RemoveHybridFrom(s, i, H) ==
    IF i > Len(s) THEN <<>>
    ELSE IF s[i] \in H THEN RemoveHybridFrom(s, SkipWs(s, i + 1), H)
    ELSE <<s[i]>> \o RemoveHybridFrom(s, i + 1, H)

\* re.sub(r"[×x]\s*", "", s)
RemoveHybrid(s, H) == RemoveHybridFrom(s, 1, H)

\* \b(subsp\.|ssp\.|var\.|f\.|cv\.)\b matches at index i of s
MarkerAt(s, i) ==
    \E m \in RankMarkers :
        /\ i + Len(m) - 1 <= Len(s)
        /\ \A k \in 1..Len(m) : Lower(s[i + k - 1]) = m[k]
        /\ (i = 1 \/ ~IsWord(s[i - 1]))
        /\ i + Len(m) <= Len(s)
        /\ IsWord(s[i + Len(m)])

RECURSIVE LineEnd(_, _)
\* .* stops before the next newline
LineEnd(s, i) ==
    IF i > Len(s) \/ s[i] = "\n" THEN i ELSE LineEnd(s, i + 1)

RECURSIVE StripRankFrom(_, _)
StripRankFrom(s, i) ==
    IF i > Len(s) THEN <<>>
    ELSE IF MarkerAt(s, i) THEN StripRankFrom(s, LineEnd(s, i))
    ELSE <<s[i]>> \o StripRankFrom(s, i + 1)

\* re.sub(r"\b(subsp\.|ssp\.|var\.|f\.|cv\.)\b.*", "", s, flags=re.I)
StripRank(s) == StripRankFrom(s, 1)

RECURSIVE LStrip(_)
LStrip(s) ==
    IF s = <<>> \/ Head(s) \notin Whitespace THEN s ELSE LStrip(Tail(s))

RECURSIVE RStrip(_)
RStrip(s) ==
    IF s = <<>> \/ s[Len(s)] \notin Whitespace THEN s
    ELSE RStrip(SubSeq(s, 1, Len(s) - 1))

\* str.strip()
Strip(s) == RStrip(LStrip(s))

RECURSIVE TokenEnd(_, _)
TokenEnd(s, i) ==
    IF i > Len(s) \/ s[i] \in Whitespace THEN i ELSE TokenEnd(s, i + 1)

RECURSIVE SplitFrom(_, _)
SplitFrom(s, i) ==
    LET j == SkipWs(s, i) IN
    IF j > Len(s) THEN <<>>
    ELSE LET e == TokenEnd(s, j) IN <<SubSeq(s, j, e - 1)>> \o SplitFrom(s, e)

\* str.split(): the whitespace-separated tokens
Split(s) == SplitFrom(s, 1)

\* the body shared by every copy of canon_binomial
CanonWith(s, H) ==
    IF s = <<>> THEN <<>>
    ELSE LET s2    == StripRank(RemoveHybrid(s, H))
             parts == Split(Strip(s2))
         IN  IF Len(parts) >= 2 THEN parts[1] \o <<" ">> \o parts[2]
             ELSE Strip(s2)

\* a variant that strips the rank marker before the hybrid marker
CanonRankFirst(s) ==
    IF s = <<>> THEN <<>>
    ELSE LET s2    == RemoveHybrid(StripRank(s), HybridChars)
             parts == Split(Strip(s2))
         IN  IF Len(parts) >= 2 THEN parts[1] \o <<" ">> \o parts[2]
             ELSE Strip(s2)

\* plantbook.canon_binomial, plants_ingest._canon_binomial_only
canon_binomial(s) == CanonWith(s, HybridChars)

\* enrich_gbif_dwca.canon_binomial
canon_binomial_dwca(s) == CanonWith(s, HybridCharsDwca)

(***************************************************************************)
(* Canonicalizer: the inputs are all strings of at most MaxLen characters  *)
(* over CanonAlphabet.                                                     *)
(***************************************************************************)
MaxLen == 5

CanonAlphabet == {"f", "F", "x", "T", ".", " ", "\n"}

CanonInputs == UNION { [1..n -> CanonAlphabet] : n \in 0..MaxLen }

InitCanon ==
    /\ cnPc = "in"
    /\ cnIn \in CanonInputs
    /\ cnOnce = [v \in {"ingest", "dwca"} |-> <<>>]
    /\ cnTwice = [v \in {"ingest", "dwca"} |-> <<>>]
    /\ CanonOthersIdle

\* one call of canon_binomial on the raw string
CanonApply ==
    /\ cnPc = "in"
    /\ cnOnce' = [v \in {"ingest", "dwca"} |->
                    IF v = "ingest" THEN canon_binomial(cnIn)
                    ELSE canon_binomial_dwca(cnIn)]
    /\ cnPc' = "once"
    /\ UNCHANGED <<cnIn, cnTwice, canonOthers>>

\* a second call, on the result of the first
CanonAgain ==
    /\ cnPc = "once"
    /\ cnTwice' = [v \in {"ingest", "dwca"} |->
                    IF v = "ingest" THEN canon_binomial(cnOnce[v])
                    ELSE canon_binomial_dwca(cnOnce[v])]
    /\ cnPc' = "twice"
    /\ UNCHANGED <<cnIn, cnOnce, canonOthers>>

NextCanon == CanonApply \/ CanonAgain

SpecCanon == InitCanon /\ [][NextCanon]_vars

\* C5: canon_binomial(canon_binomial(s)) = canon_binomial(s) for every input
\* string s, in both source variants of the function.
C5_CanonIdempotent ==
    cnPc = "twice" => \A v \in {"ingest", "dwca"} : cnTwice[v] = cnOnce[v]

\* an input with a hybrid marker and a rank marker whose result is cut at
\* the marker, canonicalized twice
C5_Witness ==
    /\ cnPc = "twice"
    /\ \E i \in 1..Len(cnIn) : cnIn[i] = "x"
    /\ \E i \in 1..Len(cnIn) : MarkerAt(cnIn, i)
    /\ cnOnce["ingest"] # <<>>
    /\ Len(cnOnce["ingest"]) < Len(cnIn) - 1

\* the copy of canon_binomial the variant stands for
CanonOf(v, s) ==
    IF v = "ingest" THEN canon_binomial(s) ELSE canon_binomial_dwca(s)

\* the positions where a whitespace-separated token of s starts
TokenStarts(s) ==
    { i \in 1..Len(s) :
        s[i] \notin Whitespace /\ (i = 1 \/ s[i - 1] \in Whitespace) }

\* the token of s that starts at i
TokenAt(s, i) == SubSeq(s, i, TokenEnd(s, i) - 1)

\* the token starts of s that hold an infraspecific-rank marker token
RankTokenStarts(s) ==
    { i \in TokenStarts(s) :
        [k \in 1..Len(TokenAt(s, i)) |-> Lower(TokenAt(s, i)[k])]
            \in RankMarkers }

\* the token starts of s that hold a hybrid marker token
HybridTokenStarts(s) ==
    { i \in TokenStarts(s) : TokenAt(s, i) \in {<<"T">>, <<"x">>} }

\* the first two tokens joined by one space, the single token, or nothing
FirstTwoTokens(s) ==
    LET parts == Split(s) IN
    IF Len(parts) >= 2 THEN parts[1] \o <<" ">> \o parts[2]
    ELSE IF Len(parts) = 1 THEN parts[1]
    ELSE <<>>

\* C26: for every input that contains an infraspecific-rank marker token
\* (subsp., ssp., var., f., cv., in any letter case), canon_binomial's result
\* equals canon_binomial applied to the part of the input that precedes the
\* first such marker.
C26_CutAtRankMarker ==
    (cnPc \in {"once", "twice"} /\ RankTokenStarts(cnIn) # {}) =>
        LET first == CHOOSE i \in RankTokenStarts(cnIn) :
                         \A j \in RankTokenStarts(cnIn) : i <= j
        IN  \A v \in {"ingest", "dwca"} :
                cnOnce[v] = CanonOf(v, SubSeq(cnIn, 1, first - 1))

\* C27: for every input none of whose whitespace-separated tokens is a
\* hybrid marker token or an infraspecific-rank marker, canon_binomial
\* returns the input's first two tokens unchanged, joined by one space (or
\* the single token, or the empty string).
C27_TokensUnchanged ==
    (/\ cnPc \in {"once", "twice"}
     /\ RankTokenStarts(cnIn) = {}
     /\ HybridTokenStarts(cnIn) = {}) =>
        \A v \in {"ingest", "dwca"} : cnOnce[v] = FirstTwoTokens(cnIn)

(***************************************************************************)
(* Synonym records and their bulk upsert.  A record's name is a string (a  *)
(* sequence of characters) or None; kind and locale are strings, "None"    *)
(* standing for a missing or None value.                                   *)
(***************************************************************************)
None == <<"None">>

\* x or ""  for a name
OrEmpty(x) == IF x = None THEN <<>> ELSE x

\* str.lower()
LowerStr(s) == [i \in 1..Len(s) |-> Lower(s[i])]

\* the default kind of a record without one: "common" in
\* enrich_gbif_dwca.py and plantbook.py, "scientific" in plants_ingest.py
DefaultKind(variant) == IF variant = "ingest" THEN "scientific" ELSE "common"

\* the key of job's de-dupe, compared case-sensitively on the name
SynKeyCaseSensitive(r, variant) ==
    << r.plant_id,
       OrEmpty(r.name),
       IF r.kind \in {"None", ""} THEN DefaultKind(variant) ELSE r.kind,
       IF r.locale \in {"None", ""} THEN "" ELSE r.locale >>

\* key = (r["plant_id"], (r["name"] or "").lower(), r.get("kind") or <default>,
\*        r.get("locale") or "")
SynKey(r, variant) ==
    << r.plant_id,
       LowerStr(OrEmpty(r.name)),
       IF r.kind \in {"None", ""} THEN DefaultKind(variant) ELSE r.kind,
       IF r.locale \in {"None", ""} THEN "" ELSE r.locale >>

RECURSIVE DedupFrom(_, _, _, _)
\* the loop over batch_rows: seen is the set of keys met so far
DedupFrom(rows, i, seen, variant) ==
    IF i > Len(rows) THEN <<>>
    ELSE LET key == SynKey(rows[i], variant) IN
         IF key \in seen THEN DedupFrom(rows, i + 1, seen, variant)
         ELSE <<rows[i]>> \o DedupFrom(rows, i + 1, seen \cup {key}, variant)

\* a job that sends its chunk as it is
DedupNone(rows, variant) == rows

\* uniq / unique_rows of job(batch_rows)
Dedup(rows, variant) == DedupFrom(rows, 1, {}, variant)

Min(a, b) == IF a <= b THEN a ELSE b

\* chunks = [rows[i:i+batch] for i in range(0, len(rows), batch)]
Chunks(rows, batch) ==
    [k \in 1..((Len(rows) + batch - 1) \div batch) |->
        SubSeq(rows, (k - 1) * batch + 1, Min(k * batch, Len(rows)))]

MaxRows == 3

MaxBatch == 2

\* records that agree or differ in each component of the key
UpsertRowUniverse ==
    { [plant_id |-> 1, name |-> <<"a">>, kind |-> "common", locale |-> "en"],
      [plant_id |-> 1, name |-> <<"A">>, kind |-> "common", locale |-> "en"],
      [plant_id |-> 1, name |-> <<"a">>, kind |-> "None",   locale |-> "en"],
      [plant_id |-> 1, name |-> <<"a">>, kind |-> "common", locale |-> "None"],
      [plant_id |-> 1, name |-> <<"a">>, kind |-> "common", locale |-> ""],
      [plant_id |-> 2, name |-> <<"a">>, kind |-> "common", locale |-> "en"] }

\* the state when the chunk jobs have been submitted to the pool
InitUpsert ==
    /\ upPc = "pool"
    /\ upVariant \in {"dwca", "ingest"}
    /\ upRows \in UNION { [1..n -> UpsertRowUniverse] : n \in 0..MaxRows }
    /\ upBatch \in 1..MaxBatch
    /\ upStatus = [k \in DOMAIN Chunks(upRows, upBatch) |-> "pending"]
    /\ upReqs = [k \in DOMAIN Chunks(upRows, upBatch) |-> <<>>]
    /\ upCollected = {}
    /\ upSent = 0
    /\ UpsertOthersIdle

\* job(batch_rows) of one chunk, run by a pool worker: de-dupe, then one
\* bulk upsert, which succeeds or raises
UpsertJob(k, raises) ==
    /\ upPc = "pool"
    /\ upStatus[k] = "pending"
    /\ LET uniq == Dedup(Chunks(upRows, upBatch)[k], upVariant) IN
       /\ upReqs' = [upReqs EXCEPT ![k] = uniq]
       /\ upStatus' = [upStatus EXCEPT ![k] = IF raises THEN "failed" ELSE "ok"]
    /\ UNCHANGED <<upPc, upVariant, upRows, upBatch, upCollected, upSent, upsertOthers>>

\* what fut.result() gives the caller: enrich_gbif_dwca.py and plantbook.py
\* catch the upsert's exception inside job and return len(uniq) all the same;
\* plants_ingest.py lets it reach the caller, who adds nothing
JobResult(k) ==
    IF upVariant = "ingest" /\ upStatus[k] = "failed" THEN 0
    ELSE Len(upReqs[k])

\* one turn of the as_completed loop: sent += f.result()
UpsertCollect(k) ==
    /\ upPc = "pool"
    /\ upStatus[k] \in {"ok", "failed"}
    /\ k \notin upCollected
    /\ upCollected' = upCollected \cup {k}
    /\ upSent' = upSent + JobResult(k)
    /\ UNCHANGED <<upPc, upVariant, upRows, upBatch, upStatus, upReqs, upsertOthers>>

\* a caller that returns its total whenever it likes
ReturnAnyTime(collected, jobs) == TRUE

\* the as_completed loop has consumed every future it was given, and the
\* `with ThreadPoolExecutor` block is left
PoolDrained(collected, jobs) == collected = jobs

\* return sent, once every future has been consumed
UpsertReturn ==
    /\ upPc = "pool"
    /\ PoolDrained(upCollected, DOMAIN upStatus)
    /\ upPc' = "done"
    /\ UNCHANGED <<upVariant, upRows, upBatch, upStatus, upReqs, upCollected, upSent, upsertOthers>>

NextUpsert ==
    \/ \E k \in DOMAIN upStatus, raises \in BOOLEAN : UpsertJob(k, raises)
    \/ \E k \in DOMAIN upStatus : UpsertCollect(k)
    \/ UpsertReturn

SpecUpsert == InitUpsert /\ [][NextUpsert]_vars

RECURSIVE OkChunkSum(_)
\* the records of the chunks 1..n whose bulk upsert completed without error
OkChunkSum(n) ==
    IF n = 0 THEN 0
    ELSE (IF upStatus[n] = "ok" THEN Len(upReqs[n]) ELSE 0) + OkChunkSum(n - 1)

\* C39: the count returned by _parallel_upsert_synonyms is the number of
\* records of the chunks whose bulk upsert completed without error: a chunk
\* whose upsert raised adds 0, and every other chunk is still sent and
\* counted.
C39_CountsOnlySucceeded ==
    upPc = "done" =>
        /\ \A k \in DOMAIN upStatus : upStatus[k] # "pending" /\ k \in upCollected
        /\ upSent = OkChunkSum(Len(upStatus))

\* the key of the claim: (plant_id, lowercase(name), kind, locale-or-empty)
ClaimKey(r) ==
    << r.plant_id, LowerStr(OrEmpty(r.name)), r.kind,
       IF r.locale = "None" THEN "" ELSE r.locale >>

\* C1: in every bulk upsert request of _parallel_upsert_synonyms no two
\* transmitted records share (plant_id, lowercase(name), kind,
\* locale-or-empty), whatever the input list.
C1_RequestKeysUnique ==
    \A k \in DOMAIN upReqs :
        \A i, j \in 1..Len(upReqs[k]) :
            i # j => ClaimKey(upReqs[k][i]) # ClaimKey(upReqs[k][j])

\* a chunk that held two records of the same key was sent as one request
\* with the duplicate removed
C1_Witness ==
    \E k \in DOMAIN upReqs :
        /\ upStatus[k] # "pending"
        /\ Len(upReqs[k]) >= 1
        /\ Len(upReqs[k]) < Len(Chunks(upRows, upBatch)[k])
        /\ \E i, j \in 1..Len(Chunks(upRows, upBatch)[k]) :
              /\ i < j
              /\ Chunks(upRows, upBatch)[k][i] # Chunks(upRows, upBatch)[k][j]
              /\ ClaimKey(Chunks(upRows, upBatch)[k][i])
                    = ClaimKey(Chunks(upRows, upBatch)[k][j])

(***************************************************************************)
(* The IN(...) read loop of _fetch_scientific_synonyms and                 *)
(* _safe_in_select: a window of `size` ids per request, shrunk when the    *)
(* request fails as too large.  A request's outcome is chosen freely.      *)
(***************************************************************************)
MaxIds == 4

MaxInMax == 24

\* `if size > 10` of the shrink branch
ShrinkFloor == 10

Max(a, b) == IF a >= b THEN a ELSE b

\* the turns of the loop that are followed: more than a run whose every
\* turn advances the window or shrinks the size can take
ShrinkIterCap == MaxIds + MaxInMax

\* the ids of plant_ids[i:i+size]
Window(i, size, n) == { id \in 1..n : i < id /\ id <= i + size }

\* the shrink branch always halves
ShrinkHalveOnly(size) == IF size > 1 THEN size \div 2 ELSE size

\* the shrink branch that skips to the next window on every failure
ShrinkNever(size) == size

\* if size > 10: size //= 2   elif size > 1: size = 1
ShrinkSize(size) ==
    IF size > ShrinkFloor THEN size \div 2
    ELSE IF size > 1 THEN 1
    ELSE size

\* size = max(1, in_max) in _fetch_scientific_synonyms; _safe_in_select
\* takes start_size as given, here with a start of at least 1 (the start
\* as its caller passes it, unclamped, is InitShrinkEnv's)
InitShrink ==
    /\ shPc = "loop"
    /\ shFn \in {"fetch", "safe"}
    /\ shN \in 0..MaxIds
    /\ shI = 0
    /\ \E in_max \in 0..MaxInMax :
          /\ shFn = "safe" => in_max >= 1
          /\ shStart = Max(1, in_max)
    /\ shSize = shStart
    /\ shCover = [id \in 1..shN |-> 0]
    /\ shFail1 = {}
    /\ shSkipSize = [id \in 1..shN |-> 0]
    /\ shOther = FALSE
    /\ shIter = 0
    /\ ShrinkOthersIdle

\* the request of the window succeeds: its rows are taken, i += size
ShrinkRequestOk ==
    /\ shPc = "loop"
    /\ shI < shN
    /\ shIter < ShrinkIterCap
    /\ shIter' = shIter + 1
    /\ shCover' = [id \in 1..shN |->
                     IF id \in Window(shI, shSize, shN) THEN shCover[id] + 1
                     ELSE shCover[id]]
    /\ shI' = shI + shSize
    /\ UNCHANGED <<shPc, shFn, shN, shStart, shSize, shFail1, shSkipSize, shOther, shrinkOthers>>

\* the request fails with a 414 / Request-URI Too Large (in _safe_in_select
\* also "Bad Request", "JSON could not be generated"): shrink and retry the
\* same window, or at size 1 skip one id
ShrinkRequestTooLarge ==
    /\ shPc = "loop"
    /\ shI < shN
    /\ shIter < ShrinkIterCap
    /\ shIter' = shIter + 1
    /\ IF ShrinkSize(shSize) # shSize
       THEN /\ shSize' = ShrinkSize(shSize)
            /\ UNCHANGED <<shI, shFail1, shSkipSize>>
       ELSE /\ shI' = shI + 1
            /\ shFail1' = IF shSize = 1 THEN shFail1 \cup {shI + 1} ELSE shFail1
            /\ shSkipSize' = [shSkipSize EXCEPT ![shI + 1] = shSize]
            /\ UNCHANGED shSize
    /\ UNCHANGED <<shPc, shFn, shN, shStart, shCover, shOther, shrinkOthers>>

\* the request fails with any other error: the window is given up, i += size
ShrinkRequestOtherError ==
    /\ shPc = "loop"
    /\ shI < shN
    /\ shIter < ShrinkIterCap
    /\ shIter' = shIter + 1
    /\ shSkipSize' = [id \in 1..shN |->
                        IF id \in Window(shI, shSize, shN) THEN shSize
                        ELSE shSkipSize[id]]
    /\ shI' = shI + shSize
    /\ shOther' = TRUE
    /\ UNCHANGED <<shPc, shFn, shN, shStart, shSize, shCover, shFail1, shrinkOthers>>

\* while i < n: ... ; return out
ShrinkReturn ==
    /\ shPc = "loop"
    /\ shI >= shN
    /\ shPc' = "done"
    /\ UNCHANGED <<shFn, shN, shI, shStart, shSize, shCover, shFail1, shSkipSize,
                   shOther, shIter, shrinkOthers>>

NextShrink ==
    \/ ShrinkRequestOk
    \/ ShrinkRequestTooLarge
    \/ ShrinkRequestOtherError
    \/ ShrinkReturn

SpecShrink == InitShrink /\ [][NextShrink]_vars

RECURSIVE ShrinkSizesFrom(_)
\* the sizes tried when every request fails as too large, from a start size
ShrinkSizesFrom(size) ==
    IF ShrinkSize(size) = size THEN <<size>>
    ELSE <<size>> \o ShrinkSizesFrom(ShrinkSize(size))

\* a turn of the loop that neither took the rows of a window nor gave up an
\* id: a request-too-large failure at a size above 1
C34_FailedAboveOne ==
    /\ shIter' # shIter
    /\ shCover' = shCover
    /\ shSkipSize' = shSkipSize

MaxLimit == 3

MaxDbSyn == 4

ChainSci == <<"a">>

\* the names of synonym rows: blank, the scientific name in another case,
\* another name
ChainDbNames == { <<" ">>, <<"A">>, <<"s">> }

OutcomeKeys == 0..3

\* the best common name of a key: none, the scientific name in another
\* case, or a proper common name
KeyName(k) ==
    CASE k = 1 -> <<"A">>
      [] k = 2 -> <<"b">>
      [] k = 3 -> <<"c">>
      [] OTHER -> None

\* common and not same_as_scientific(common):
\* c.strip().lower() != sci.strip().lower()
Usable(c, sci) ==
    /\ c # None
    /\ c # <<>>
    /\ LowerStr(Strip(c)) # LowerStr(Strip(sci))

\* the fetch without the per-plant cap
FetchNoCap(rows, per_plant) ==
    SelectSeq([i \in 1..Len(rows) |-> Strip(OrEmpty(rows[i]))],
              LAMBDA nm : nm # <<>>)

RECURSIVE FetchSynFrom(_, _, _, _)
\* nm = (r.get("name") or "").strip()
\* if nm and len(out[pid]) < per_plant: out[pid].append(nm)
FetchSynFrom(rows, i, out, per_plant) ==
    IF i > Len(rows) THEN out
    ELSE LET nm == Strip(OrEmpty(rows[i])) IN
         FetchSynFrom(rows, i + 1,
                      IF nm # <<>> /\ Len(out) < per_plant
                      THEN Append(out, nm) ELSE out,
                      per_plant)

\* out[pid] of _fetch_scientific_synonyms for the rows of one plant
FetchSyn(rows, per_plant) == FetchSynFrom(rows, 1, <<>>, per_plant)

\* enrich_gbif, Phase B: pairs holds the synonyms that are not the
\* scientific name itself
RECURSIVE PairsFrom(_, _)
PairsFrom(syn, i) ==
    IF i > Len(syn) THEN <<>>
    ELSE IF syn[i] # <<>> /\ LowerStr(Strip(syn[i])) # LowerStr(Strip(ChainSci))
         THEN <<i>> \o PairsFrom(syn, i + 1)
         ELSE PairsFrom(syn, i + 1)

Pairs(syn) == PairsFrom(syn, 1)

Range(f) == { f[i] : i \in DOMAIN f }

\* enrich_inat and enrich_itis fetch syn_map before resolve_one runs;
\* enrich_gbif fetches it after Phase A
InitChain ==
    /\ chPass \in {"inat", "itis", "gbif"}
    /\ chPc = IF chPass = "gbif" THEN "primary" ELSE "fetch"
    /\ chLimit \in 0..MaxLimit
    /\ chDb \in UNION { [1..n -> ChainDbNames] : n \in 0..MaxDbSyn }
    /\ chSyn = <<>>
    /\ chPrimary = -1
    /\ chTried = <<>>
    /\ chOut = <<>>
    /\ chAttempts = 0
    /\ chResult = None
    /\ ChainOthersIdle

\* syn_map = _fetch_scientific_synonyms(sb, ids, per_plant=GBIF_SYNONYM_LIMIT);
\* a failed request leaves the plant without an entry
ChainFetch(ok) ==
    /\ chPc = "fetch"
    /\ chSyn' = IF ok THEN FetchSyn(chDb, chLimit) ELSE <<>>
    /\ chPc' = IF chPass = "gbif" THEN "batch" ELSE "primary"
    /\ UNCHANGED <<chPass, chLimit, chDb, chPrimary, chTried, chOut,
                   chAttempts, chResult, chainOthers>>

\* the attempt on the entity's own scientific name (or cached key)
ChainPrimary(k) ==
    /\ chPc = "primary"
    /\ chPrimary' = k
    /\ chAttempts' = chAttempts + 1
    /\ IF Usable(KeyName(k), ChainSci)
       THEN chResult' = KeyName(k) /\ chPc' = "done"
       ELSE /\ chResult' = None
            /\ chPc' = IF chPass = "gbif" THEN "fetch"
                       ELSE IF chSyn = <<>> THEN "done" ELSE "syn"
    /\ UNCHANGED <<chPass, chLimit, chDb, chSyn, chTried, chOut, chainOthers>>

\* the loop that never stops early
BreakNever(c) == FALSE

\* if common and not same_as_scientific(common): break
BreakOn(c) == Usable(c, ChainSci)

\* one turn of `for nm in syn_map.get(pid, [])` in resolve_one, with the
\* staging test that follows the loop when the turn is the last one.
\* enrich_inat overwrites `common` on every turn; enrich_itis assigns
\* `chosen` only when the turn's name is usable
ChainTrySyn(k) ==
    /\ chPc = "syn"
    /\ chPass \in {"inat", "itis"}
    /\ Len(chTried) < Len(chSyn)
    /\ chTried' = Append(chTried, Len(chTried) + 1)
    /\ chOut' = Append(chOut, k)
    /\ chAttempts' = chAttempts + 1
    /\ chResult' = IF Usable(KeyName(k), ChainSci) THEN KeyName(k)
                   ELSE IF chPass = "inat" THEN None ELSE chResult
    /\ chPc' = IF BreakOn(KeyName(k)) \/ Len(chTried) + 1 = Len(chSyn)
               THEN "done" ELSE "syn"
    /\ UNCHANGED <<chPass, chLimit, chDb, chSyn, chPrimary, chainOthers>>

\* enrich_gbif, Phase B: every pair is matched in one gather; the keys of
\* the matches are kept in a set per plant, and the first key of the set's
\* iteration that has a usable name is chosen (the order of a Python set
\* is not the order of insertion: any usable key may come first)
ChainBatch ==
    /\ chPc = "batch"
    /\ chPass = "gbif"
    /\ \E outs \in [1..Len(Pairs(chSyn)) -> OutcomeKeys] :
          LET keys   == Range(outs) \ {0}
              usable == { k \in keys : Usable(KeyName(k), ChainSci) }
          IN  /\ chOut' = outs
              /\ \/ usable = {} /\ chResult' = None
                 \/ \E pick \in usable : chResult' = KeyName(pick)
    /\ chTried' = Pairs(chSyn)
    /\ chAttempts' = chAttempts + Len(Pairs(chSyn))
    /\ chPc' = "done"
    /\ UNCHANGED <<chPass, chLimit, chDb, chSyn, chPrimary, chainOthers>>

NextChain ==
    \/ \E ok \in BOOLEAN : ChainFetch(ok)
    \/ \E k \in OutcomeKeys : ChainPrimary(k)
    \/ \E k \in OutcomeKeys : ChainTrySyn(k)
    \/ ChainBatch

SpecChain == InitChain /\ [][NextChain]_vars

\* every attempt is an await that returns: the chain always takes its next step
FairSpecChain == SpecChain /\ WF_vars(NextChain)

\* C3: for every entity the synonym fallback makes at most limit + 1
\* resolution attempts (one on the entity's own name and at most
\* GBIF_SYNONYM_LIMIT on synonyms, the list being capped when it is
\* fetched), and it reaches its terminal state whatever the attempts return.
C3_ChainBoundedAndTerminates ==
    /\ [](chPc # "idle" => chAttempts <= chLimit + 1)
    /\ <>(chPc = "done")

\* a finished chain that used every attempt it is allowed, on an entity
\* with more synonym rows than the cap admits
C3_Witness ==
    /\ chPc = "done"
    /\ chLimit >= 1
    /\ chAttempts = chLimit + 1
    /\ Len(FetchNoCap(chDb, chLimit)) > chLimit

\* an attempt succeeds when its name is non-empty and not the scientific
\* name up to case
C4_Succeeds(k) ==
    /\ KeyName(k) # None
    /\ KeyName(k) # <<>>
    /\ LowerStr(KeyName(k)) # LowerStr(ChainSci)

C4_Successes == { j \in 1..Len(chOut) : C4_Succeeds(chOut[j]) }

C4_First == CHOOSE j \in C4_Successes : \A h \in C4_Successes : j <= h

\* synonyms are attempted in list order, none after a success, and the
\* chain ends with the name of the lowest-index succeeding synonym
C4_FirstSuccessWins ==
    /\ \A j \in 1..Len(chTried) : \A h \in 1..(j - 1) : chTried[h] < chTried[j]
    /\ \A j \in C4_Successes : j = Len(chOut)
    /\ (chPc = "done" /\ C4_Successes # {})
          => chResult = KeyName(chOut[C4_First])
    /\ (chPc = "done" /\ C4_Successes = {} /\ ~C4_Succeeds(chPrimary))
          => chResult = None

\* C4 as stated: in the GBIF, iNaturalist and ITIS passes alike, synonyms
\* are attempted in list order, no synonym is attempted after one has
\* yielded a non-empty name that is not the scientific name up to case, and
\* that name is the chain's result.
C4_Original == chPc # "idle" => C4_FirstSuccessWins

\* C4, amended: the iNaturalist and ITIS passes attempt synonyms in list
\* order, stop at the first that yields a non-empty name that is not the
\* scientific name up to case, and end with that name.  The GBIF pass
\* attempts every fetched synonym that is not the scientific name itself,
\* and ends with the name of one of the succeeding synonyms (none when no
\* synonym succeeds), not necessarily the one of lowest index.
C4_Amended ==
    /\ chPass \in {"inat", "itis"} => C4_Original
    /\ (chPass = "gbif" /\ chPc = "done" /\ ~C4_Succeeds(chPrimary)) =>
          /\ chTried = Pairs(chSyn)
          /\ Len(chOut) = Len(chTried)
          /\ C4_Successes = {} => chResult = None
          /\ C4_Successes # {} =>
                \E j \in C4_Successes : chResult = KeyName(chOut[j])

\* an iNaturalist or ITIS chain whose first synonym failed, whose second
\* succeeded, and that left a third synonym untried
C4_Witness ==
    /\ chPass \in {"inat", "itis"}
    /\ chPc = "done"
    /\ Len(chSyn) = 3
    /\ chTried = <<1, 2>>
    /\ ~C4_Succeeds(chOut[1])
    /\ C4_Succeeds(chOut[2])
    /\ chResult = KeyName(chOut[2])

(***************************************************************************)
(* The selection of the best common name of one taxon: the vernacular pass *)
(* of enrich_from_backbone, _pb_pick_eng_common and                        *)
(* _pick_preferred_en_common_from_wikidata.  A name is a sequence of       *)
(* characters in which "fam" stands for the word "family"; a language or   *)
(* a country code is a whole string; a locale "en-US" is <<"en", "US">>.   *)
(* Each policy is run on two orders of one candidate set.                  *)
(***************************************************************************)
MaxCands == 3

\* lang_filter = "en,eng"
LangAllow == {"en", "eng"}

\* PLANTBOOK_LANGS = os.getenv("PLANTBOOK_LANGS", "en,eng").lower().split(",")
PLANTBOOK_LANGS == {"en", "eng"}

EnglishCountries == {"US", "GB", "CA", "AU", "NZ"}

\* the words whose presence after a space lowers the score: family, genus,
\* order, group, aggregate, complex
RankLabelWords == {"fam"}

\* str.upper() and str.lower() on a language or country code
UpperAtom(x) == IF x = "us" THEN "US" ELSE x

LowerAtom(x) == IF x = "US" THEN "us" ELSE x

\* lang or "en"
OrEn(lang) == IF lang = "" THEN "en" ELSE lang

\* " family" in low or " genus" in low or ...
LooksLikeRank(low) ==
    \E i \in 1..(Len(low) - 1) : low[i] = " " /\ low[i + 1] \in RankLabelWords

\* a scorer whose word-count term has no floor
ScoreNoFloor(name, preferred, lang, country) ==
    (IF lang \in {"en", "eng"} THEN 10 ELSE 0)
    + (IF preferred THEN 5 ELSE 0)
    + (IF UpperAtom(country) \in EnglishCountries THEN 2 ELSE 0)
    + (6 - Len(Split(name)))
    - (IF LooksLikeRank(LowerStr(name)) THEN 3 ELSE 0)

\* a locale derivation that never appends the country
LocaleNoCountry(lang, country) ==
    <<IF lang \in {"en", "eng"} THEN "en" ELSE OrEn(lang)>>

\* _pick_score(name, preferred, lang, country)
pick_score(name, preferred, lang, country) ==
    (IF lang \in {"en", "eng"} THEN 10 ELSE 0)
    + (IF preferred THEN 5 ELSE 0)
    + (IF UpperAtom(country) \in EnglishCountries THEN 2 ELSE 0)
    + Max(0, 6 - Len(Split(name)))
    - (IF LooksLikeRank(LowerStr(name)) THEN 3 ELSE 0)

\* _best_locale(lang, country)
best_locale(lang, country) ==
    LET l  == IF lang \in {"en", "eng"} THEN "en" ELSE OrEn(lang)
        cc == UpperAtom(country)
    IN  IF l = "en" /\ cc # "" THEN <<l, cc>> ELSE <<l>>

\* the candidates of one taxon: three that share the top score (two of
\* them the same name in two cases), and three of lower scores
SelUniverse ==
    { [name |-> <<"a">>, lang |-> "en", country |-> "US", preferred |-> TRUE],
      [name |-> <<"A">>, lang |-> "en", country |-> "US", preferred |-> TRUE],
      [name |-> <<"b">>, lang |-> "eng", country |-> "us", preferred |-> TRUE],
      [name |-> <<"r", " ", "a">>, lang |-> "en", country |-> "",
       preferred |-> FALSE],
      [name |-> <<"a", " ", "fam">>, lang |-> "en", country |-> "",
       preferred |-> TRUE],
      [name |-> <<"b">>, lang |-> "de", country |-> "", preferred |-> TRUE],
      [name |-> <<"r">>, lang |-> "", country |-> "", preferred |-> TRUE] }

Perms(C) ==
    { s \in [1..Cardinality(C) -> C] :
        \A i, j \in 1..Cardinality(C) : s[i] = s[j] => i = j }

\* the rule that replaces the stored candidate on every row
AlwaysReplace(score, prev) == TRUE

\* a comparison that replaces the holder by a smaller score
WorseScore(score, prev) == score < prev

\* a comparison that also replaces the holder on an equal score
BetterOrEqual(score, prev) == score >= prev

\* score > prev[0]
BetterScore(score, prev) == score > prev

\* ---- _pb_pick_eng_common ----
\* commons: (name.strip(), locale) of the entries with a non-blank name
PbCommons(cands) ==
    SelectSeq([i \in 1..Len(cands) |->
                  << Strip(cands[i].name),
                     best_locale(LowerAtom(OrEn(cands[i].lang)),
                                 cands[i].country) >>],
              LAMBDA c : c[1] # <<>>)

PbKey(c) == << LowerStr(c[1]), [i \in 1..Len(c[2]) |-> LowerAtom(c[2][i])] >>

RECURSIVE PbDedupFrom(_, _, _, _)
PbDedupFrom(commons, i, seen, uniq) ==
    IF i > Len(commons) THEN uniq
    ELSE IF PbKey(commons[i]) \in seen
         THEN PbDedupFrom(commons, i + 1, seen, uniq)
         ELSE PbDedupFrom(commons, i + 1, seen \cup {PbKey(commons[i])},
                          Append(uniq, commons[i]))

RECURSIVE PbBestFrom(_, _, _)
\* if (best is None) or (score > best[0])
\*    or (score == best[0] and lang in PLANTBOOK_LANGS): best = (score, n, loc)
PbBestFrom(uniq, i, best) ==
    IF i > Len(uniq) THEN best
    ELSE LET n     == uniq[i][1]
             loc   == uniq[i][2]
             lang  == loc[1]
             score == pick_score(n, TRUE, lang,
                                 IF Len(loc) > 1 THEN loc[2] ELSE "")
         IN  PbBestFrom(uniq, i + 1,
                 IF \/ best = None
                    \/ BetterScore(score, best[1])
                    \/ (score = best[1] /\ lang \in PLANTBOOK_LANGS)
                 THEN <<score, n, loc>> ELSE best)

\* (best_common_name, best_locale) of _pb_pick_eng_common
PbPickEngCommon(cands) ==
    LET best == PbBestFrom(PbDedupFrom(PbCommons(cands), 1, {}, <<>>), 1, None)
    IN  IF best = None THEN None ELSE <<best[2], best[3]>>

\* ---- _pick_preferred_en_common_from_wikidata ----
\* the code point order of the characters of a lower-cased name
CharOrd(c) ==
    CASE c = " "   -> 32
      [] c = "a"   -> 97
      [] c = "b"   -> 98
      [] c = "fam" -> 102
      [] c = "r"   -> 114
      [] OTHER     -> 65

RECURSIVE SeqLess(_, _)
\* s < t for strings
SeqLess(s, t) ==
    IF t = <<>> THEN FALSE
    ELSE IF s = <<>> THEN TRUE
    ELSE IF CharOrd(Head(s)) # CharOrd(Head(t))
         THEN CharOrd(Head(s)) < CharOrd(Head(t))
         ELSE SeqLess(Tail(s), Tail(t))

RECURSIVE StrLen(_)
\* len(s)
StrLen(s) ==
    IF s = <<>> THEN 0
    ELSE (IF Head(s) = "fam" THEN 6 ELSE 1) + StrLen(Tail(s))

\* keyfn(s) = (-len(s.split()), -len(s), s.lower())
WdKey(s) == << 0 - Len(Split(s)), 0 - StrLen(s), LowerStr(s) >>

WdKeyLess(k1, k2) ==
    \/ k1[1] < k2[1]
    \/ k1[1] = k2[1] /\ k1[2] < k2[2]
    \/ k1[1] = k2[1] /\ k1[2] = k2[2] /\ SeqLess(k1[3], k2[3])

\* cleaned = [n.strip() for n in names if n and n.strip()]
WdCleaned(cands) == { Strip(cands[i].name) : i \in 1..Len(cands) } \ { <<>> }

\* the elements max(set(cleaned), key=keyfn) can return: max returns the
\* first element of maximal key in the set's iteration order
WdMaxima(cands) ==
    { s \in WdCleaned(cands) :
        \A u \in WdCleaned(cands) : ~WdKeyLess(WdKey(s), WdKey(u)) }

\* ---- _pick_best_common_name (plants_ingest.py) ----
\* lang_code(v): 'eng' counts as 'en'
GbifLangCode(c) ==
    LET l == LowerAtom(c.lang) IN IF l = "eng" THEN "en" ELSE l

\* score(v): _pick_score without the rank-label penalty
GbifScore(c) ==
    (IF GbifLangCode(c) = "en" THEN 10 ELSE 0)
    + (IF c.preferred THEN 5 ELSE 0)
    + (IF UpperAtom(c.country) \in EnglishCountries THEN 2 ELSE 0)
    + Max(0, 6 - Len(Split(c.name)))

\* pool = english if english else the entries with a name
GbifPool(cands) ==
    LET named   == SelectSeq(cands, LAMBDA c : c.name # <<>>)
        english == SelectSeq(named, LAMBDA c : GbifLangCode(c) = "en")
    IN  IF english # <<>> THEN english ELSE named

RECURSIVE GbifMaxFrom(_, _, _)
\* max(pool, key=score): the first entry of the greatest score
GbifMaxFrom(pool, i, best) ==
    IF i > Len(pool) THEN best
    ELSE GbifMaxFrom(pool, i + 1,
                     IF GbifScore(pool[i]) > GbifScore(best) THEN pool[i]
                     ELSE best)

\* the locale of the chosen entry: en, en-<COUNTRY>, the language code,
\* or None for an entry without language
GbifLocale(c) ==
    LET lang == GbifLangCode(c)
        cc   == UpperAtom(c.country)
    IN  IF lang = "" THEN None
        ELSE IF lang = "en" /\ cc # "" THEN <<lang, cc>>
        ELSE <<lang>>

\* (name, locale) of _pick_best_common_name
PickBestCommonName(cands) ==
    LET pool == GbifPool(cands) IN
    IF pool = <<>> THEN None
    ELSE LET best == GbifMaxFrom(pool, 2, pool[1])
         IN  <<Strip(best.name), GbifLocale(best)>>

\* ---- the two runs ----
SelStream == IF slPc = "run1" THEN slCands ELSE slCands2

InitSelect ==
    /\ slPc = "run1"
    /\ slPolicy \in {"dwca", "plantbook", "wikidata", "gbif"}
    /\ slAllowAny \in (IF slPolicy = "dwca" THEN BOOLEAN ELSE {FALSE})
    /\ slCands \in UNION { Perms(C) :
                             C \in { D \in SUBSET SelUniverse :
                                       Cardinality(D) <= MaxCands } }
    /\ slCands2 \in Perms(Range(slCands))
    /\ slPos = 0
    /\ slBest = None
    /\ slBestAny = None
    /\ slWin1 = None
    /\ slWin2 = None
    /\ SelectOthersIdle

\* a filter that lets every language through
PassesAny(lang) == TRUE

\* if (not lang) or (lang in lang_allow)
PassesFilter(lang) == lang = "" \/ lang \in LangAllow

\* the winner is recorded and the next run starts
SelRecord(win) ==
    /\ IF slPc = "run1"
       THEN slWin1' = win /\ slWin2' = slWin2 /\ slPc' = "run2"
       ELSE slWin2' = win /\ slWin1' = slWin1 /\ slPc' = "done"
    /\ slPos' = 0
    /\ slBest' = None
    /\ slBestAny' = None
    /\ UNCHANGED <<slPolicy, slAllowAny, slCands, slCands2, selectOthers>>

\* one row of VernacularName.tsv for the taxon
VernRow ==
    /\ slPc \in {"run1", "run2"}
    /\ slPolicy = "dwca"
    /\ slPos < Len(SelStream)
    /\ LET row     == SelStream[slPos + 1]
           name    == Strip(row.name)
           lang    == LowerAtom(row.lang)
           score   == pick_score(name, row.preferred, OrEn(lang), row.country)
           locale  == best_locale(OrEn(lang), row.country)
       IN  IF name = <<>> THEN UNCHANGED <<slBest, slBestAny>>
           ELSE /\ slBestAny' =
                      IF slBestAny = None \/ BetterScore(score, slBestAny[1])
                      THEN <<score, name, locale>> ELSE slBestAny
                /\ slBest' =
                      IF /\ PassesFilter(lang)
                         /\ slBest = None \/ BetterScore(score, slBest[1])
                      THEN <<score, name, locale>> ELSE slBest
    /\ slPos' = slPos + 1
    /\ UNCHANGED <<slPc, slPolicy, slAllowAny, slCands, slCands2, slWin1,
                   slWin2, selectOthers>>

\* b = best_by_key.get(k) or (allow_any_lang_fallback and best_any_by_key.get(k))
VernEnd ==
    /\ slPc \in {"run1", "run2"}
    /\ slPolicy = "dwca"
    /\ slPos = Len(SelStream)
    /\ LET b == IF slBest # None THEN slBest
                ELSE IF slAllowAny THEN slBestAny ELSE None
       IN  SelRecord(IF b = None THEN None ELSE <<b[2], b[3]>>)

SelectPlantbook ==
    /\ slPc \in {"run1", "run2"}
    /\ slPolicy = "plantbook"
    /\ SelRecord(PbPickEngCommon(SelStream))

\* the name is stored with the locale "en"
SelectWikidata ==
    /\ slPc \in {"run1", "run2"}
    /\ slPolicy = "wikidata"
    /\ \/ WdMaxima(SelStream) = {} /\ SelRecord(None)
       \/ \E s \in WdMaxima(SelStream) : SelRecord(<<s, <<"en">>>>)

SelectGbif ==
    /\ slPc \in {"run1", "run2"}
    /\ slPolicy = "gbif"
    /\ SelRecord(PickBestCommonName(SelStream))

NextSelect ==
    \/ VernRow
    \/ VernEnd
    \/ SelectPlantbook
    \/ SelectWikidata
    \/ SelectGbif

SpecSelect == InitSelect /\ [][NextSelect]_vars

\* the candidates the policy can choose from: under the DwC-A policy the
\* rows of a filtered language, or every row when there is none and the
\* any-language fallback is enabled
C6_Eligible ==
    LET C == Range(slCands)
        f == { c \in C : c.lang = "" \/ c.lang \in LangAllow }
        e == { c \in C : GbifLangCode(c) = "en" }
    IN  IF slPolicy = "gbif" THEN (IF e # {} THEN e ELSE C)
        ELSE IF slPolicy # "dwca" THEN C
        ELSE IF f # {} THEN f
        ELSE IF slAllowAny THEN C ELSE {}

C6_Score(c) ==
    IF slPolicy = "gbif" THEN GbifScore(c) ELSE
    pick_score(c.name, IF slPolicy = "plantbook" THEN TRUE ELSE c.preferred,
               OrEn(c.lang), c.country)

\* the (name, locale) a candidate stands for
C6_Outcome(c) ==
    << Strip(c.name),
       IF slPolicy = "wikidata" THEN <<"en">>
       ELSE IF slPolicy = "gbif" THEN GbifLocale(c)
       ELSE best_locale(OrEn(c.lang), c.country) >>

\* the candidates of maximal score (of maximal key for Wikidata)
C6_Top ==
    IF slPolicy = "wikidata"
    THEN { c \in C6_Eligible : \A d \in C6_Eligible :
             ~WdKeyLess(WdKey(Strip(c.name)), WdKey(Strip(d.name))) }
    ELSE { c \in C6_Eligible : \A d \in C6_Eligible :
             C6_Score(c) >= C6_Score(d) }

C6_TopOutcomes == { C6_Outcome(c) : c \in C6_Top }

C30_Filtered == { c \in Range(slCands) : c.lang = "" \/ c.lang \in LangAllow }

\* C30 as stated: with the any-language fallback disabled, every name
\* chosen for an entity comes from a vernacular row whose language code is
\* in the language filter; a candidate of the any-language map is used only
\* when the fallback flag is enabled and the filtered map has no candidate.
C30_Original ==
    (slPc = "done" /\ slPolicy = "dwca" /\ slWin1 # None) =>
        LET inFilter == { c \in Range(slCands) : c.lang \in LangAllow } IN
        /\ ~slAllowAny => \E c \in inFilter : C6_Outcome(c) = slWin1
        /\ (\A c \in inFilter : C6_Outcome(c) # slWin1)
               => (slAllowAny /\ inFilter = {})

\* C30, amended: with the any-language fallback disabled, every name chosen
\* for an entity comes from a vernacular row whose language code is in the
\* language filter or blank (a row without language code is taken for
\* English); a candidate of the any-language map is used only when the
\* fallback flag is enabled and no row of the TaxonKey passes that filter.
C30_Amended ==
    (slPc = "done" /\ slPolicy = "dwca" /\ slWin1 # None) =>
        /\ ~slAllowAny => \E c \in C30_Filtered : C6_Outcome(c) = slWin1
        /\ (\A c \in C30_Filtered : C6_Outcome(c) # slWin1)
               => (slAllowAny /\ C30_Filtered = {})

\* a finished vernacular pass with the fallback disabled over a row of
\* another language and a row without language code: the latter was chosen
C30_Witness ==
    /\ slPc = "done"
    /\ slPolicy = "dwca"
    /\ ~slAllowAny
    /\ \E c \in Range(slCands) : c.lang = "de"
    /\ \E c \in Range(slCands) : c.lang = "" /\ C6_Outcome(c) = slWin1
    /\ \A c \in Range(slCands) : c.lang \notin LangAllow

\* the named rows of the running pass read so far, and their scores
C32_Seen ==
    { SelStream[i] : i \in { j \in 1..slPos : Strip(SelStream[j].name) # <<>> } }

C32_RowScore(c) ==
    pick_score(Strip(c.name), c.preferred, OrEn(LowerAtom(c.lang)), c.country)

C32_IsMaxOf(stored, rows) ==
    IF rows = {} THEN stored = None
    ELSE /\ stored # None
         /\ \E c \in rows : C32_RowScore(c) = stored[1]
         /\ \A c \in rows : C32_RowScore(c) <= stored[1]

\* C32: during the vernacular pass the stored best candidate of a TaxonKey
\* is replaced only by a row of strictly greater score, so after any prefix
\* of the stream the stored score is the maximum over the rows seen so far
\* (the rows passing the filter for the filtered map, all rows for the
\* any-language map), and whenever the filtered map has an entry the
\* any-language map has one with a score at least as large.
C32_StoredIsRunningMax ==
    (slPolicy = "dwca" /\ slPc \in {"run1", "run2"}) =>
        /\ C32_IsMaxOf(slBestAny, C32_Seen)
        /\ C32_IsMaxOf(slBest,
               { c \in C32_Seen : c.lang = "" \/ c.lang \in LangAllow })
        /\ slBest # None =>
               (slBestAny # None /\ slBestAny[1] >= slBest[1])

\* three rows read, the best of them first: the filtered map and the
\* any-language map still hold the first row
C32_Witness ==
    /\ slPolicy = "dwca"
    /\ slPc = "run1"
    /\ slPos = 3
    /\ slBest # None
    /\ slBest = slBestAny
    /\ slBest[2] = Strip(slCands[1].name)
    /\ C32_RowScore(slCands[2]) < slBest[1]
    /\ C32_RowScore(slCands[3]) = slBest[1]
    /\ slCands[3].name # slCands[1].name

\* ---- ties of the maximal score, in the stream order of the first run ----
ScorePolicies == {"dwca", "plantbook", "gbif"}

\* positions of the first run's stream holding a candidate of maximal score
C23_TopAt == { i \in 1..Len(slCands) : slCands[i] \in C6_Top }

\* the positions Plantbook's de-duplication keeps: the first of each
\* (lower-cased name, lower-cased locale)
C23_KeptAt ==
    { i \in C23_TopAt : \A j \in 1..(i - 1) :
        PbKey(C6_Outcome(slCands[j])) # PbKey(C6_Outcome(slCands[i])) }

C23_PbLangAt ==
    { i \in C23_KeptAt : C6_Outcome(slCands[i])[2][1] \in PLANTBOOK_LANGS }

SetMin(S) == CHOOSE x \in S : \A y \in S : x <= y

SetMax(S) == CHOOSE x \in S : \A y \in S : x >= y

C23_Tied ==
    /\ slPc = "done"
    /\ slPolicy \in ScorePolicies
    /\ Cardinality(C23_TopAt) >= 2

\* C23 as stated: when several candidates of a candidate set have exactly
\* the same maximal score, the selection policy returns the last of them in
\* stream order.
C23_Original ==
    C23_Tied => slWin1 = C6_Outcome(slCands[SetMax(C23_TopAt)])

\* C23, amended: when several candidates have the same maximal score, the
\* DwC-A vernacular pass and _pick_best_common_name return the first of
\* them in stream order; _pb_pick_eng_common returns, after its
\* de-duplication, the last of them whose language is in PLANTBOOK_LANGS,
\* and the first of them when none has such a language.
C23_Amended ==
    C23_Tied =>
        IF slPolicy = "plantbook"
        THEN slWin1 = C6_Outcome(slCands[
                 IF C23_PbLangAt # {} THEN SetMax(C23_PbLangAt)
                 ELSE SetMin(C23_KeptAt)])
        ELSE slWin1 = C6_Outcome(slCands[SetMin(C23_TopAt)])

\* a finished vernacular pass over a stream whose first and last rows tie
\* at the maximal score with different names: the first row's name won
C23_Witness ==
    /\ C23_Tied
    /\ slPolicy = "dwca"
    /\ Len(slCands) = 3
    /\ {1, 3} \subseteq C23_TopAt
    /\ C6_Outcome(slCands[1]) # C6_Outcome(slCands[3])
    /\ slWin1 = C6_Outcome(slCands[1])

(***************************************************************************)
(* One entity through one enrichment pass: the gate that selects it, then  *)
(* the staging of its display-name patch and of its synonym records from   *)
(* the best common name the source holds for it.                           *)
(***************************************************************************)
SciUniverse == { None, <<" ">>, <<"a">>, <<"a", " ">>, <<"x", "a">> }

NameUniverse == { None, <<" ">>, <<"a">>, <<" ", "a">>, <<"A">>, <<"b">> }

AvailUniverse == { None, <<"a">>, <<"A">>, <<"b">> }

\* _is_blank(x)
IsBlank(x) == x = None \/ Strip(x) = <<>>

\* the truth value of a string or None
Truthy(x) == x # None /\ x # <<>>

\* a.strip().lower() == b.strip().lower()
SameNoCase(a, b) == LowerStr(Strip(a)) = LowerStr(Strip(b))

\* a gate that force alone opens
GateForceOnly(sci, name, force) == force

\* a gate open to every named entity
GateAnyNamed(sci, name) == Truthy(sci) /\ Truthy(name)

\* enrich_from_backbone:
\* gate = _is_blank(name) or _is_blank(sci) or (sci.strip() == name.strip())
GateDwca(sci, name, force) ==
    \/ force
    \/ IsBlank(OrEmpty(name))
    \/ IsBlank(OrEmpty(sci))
    \/ Strip(OrEmpty(sci)) = Strip(OrEmpty(name))

\* _stream_db_candidates: a row without a scientific name is skipped
GatePlantbook(sci, name, force) ==
    /\ Strip(OrEmpty(sci)) # <<>>
    /\ \/ force
       \/ IsBlank(OrEmpty(name))
       \/ Strip(OrEmpty(name)) = Strip(Strip(OrEmpty(sci)))

\* enrich_gbif: sci and name and sci == name
GateGbif(sci, name) == Truthy(sci) /\ Truthy(name) /\ sci = name

\* enrich_wikidata, enrich_inat, enrich_itis:
\* sci and name and sci.strip() == name.strip()
GateStripEqual(sci, name) ==
    Truthy(sci) /\ Truthy(name) /\ Strip(sci) = Strip(name)

\* enrich_usda_common_names: the plant is found by its stored scientific
\* name, which must be the accepted name (stripped, non-empty) of a group
GateUsda(sci, name) == Truthy(sci) /\ Strip(sci) = sci

Gate(pass, sci, name, force) ==
    CASE pass = "dwca"      -> GateDwca(sci, name, force)
      [] pass = "plantbook" -> GatePlantbook(sci, name, force)
      [] pass = "gbif"      -> GateGbif(sci, name)
      [] pass = "usda"      -> GateUsda(sci, name)
      [] OTHER              -> GateStripEqual(sci, name)

Nothing == [update |-> None, syns |-> {}]

\* enrich_from_backbone, build updates
StageDwca(sci, name, force, best, setDisplay) ==
    LET s   == Strip(OrEmpty(sci))
        cur == Strip(OrEmpty(name))
    IN  IF s = <<>> THEN Nothing
        ELSE IF ~Truthy(best) THEN Nothing
        ELSE IF LowerStr(Strip(best)) = LowerStr(s) THEN Nothing
        ELSE IF ~force /\ cur # <<>> /\ ~SameNoCase(cur, s) THEN Nothing
        ELSE [update |-> IF setDisplay THEN best ELSE None, syns |-> {best}]

\* enrich_from_plantbook: sci2raw is the scientific name of the Plantbook
\* detail, approve the answer to the prompt
StagePlantbook(sci, name, force, best, setDisplay, sci2raw, approve) ==
    LET sc   == canon_binomial(sci)
        cur  == Strip(OrEmpty(name))
        sci2 == IF sci2raw # <<>> THEN sci2raw ELSE sc
        propose ==
            /\ Truthy(best) /\ setDisplay
            /\ LowerStr(Strip(best)) # LowerStr(sci2)
            /\ ~(~force /\ cur # <<>> /\ ~SameNoCase(cur, sc))
    IN  [update |-> IF propose /\ approve THEN best ELSE None,
         syns   |-> IF Truthy(best) THEN {best} ELSE {}]

\* enrich_gbif, Phase A and Phase B
StageGbif(sci, name, best) ==
    IF ~Truthy(best) \/ SameNoCase(best, sci) THEN Nothing
    ELSE [update |-> IF best # name THEN best ELSE None, syns |-> {best}]

\* enrich_wikidata, build updates
StageWikidata(sci, best, setDisplay) ==
    IF ~Truthy(best) \/ LowerStr(Strip(best)) = LowerStr(Strip(OrEmpty(sci)))
    THEN Nothing
    ELSE [update |-> IF setDisplay THEN best ELSE None, syns |-> {best}]

\* resolve_one of enrich_inat and of enrich_itis
StageInat(sci, name, best, setDisplay) ==
    IF ~Truthy(best) \/ SameNoCase(best, OrEmpty(sci)) THEN Nothing
    ELSE [update |-> IF setDisplay /\ Strip(OrEmpty(name)) = Strip(OrEmpty(sci))
                     THEN best ELSE None,
          syns   |-> {best}]

\* a pass that stages nothing
StageNone(sci, name, common, setDisplay) == Nothing

\* enrich_usda_common_names
StageUsda(sci, name, common, setDisplay) ==
    IF ~Truthy(common) THEN Nothing
    ELSE [update |-> IF setDisplay /\ Strip(OrEmpty(name)) = Strip(OrEmpty(sci))
                     THEN common ELSE None,
          syns   |-> {common}]

\* force is a parameter of enrich_from_backbone and enrich_from_plantbook only
InitEnrich ==
    /\ enPc = "gate"
    /\ enPass \in {"dwca", "plantbook", "gbif", "wikidata", "inat", "itis", "usda"}
    /\ enForce \in (IF enPass \in {"dwca", "plantbook"} THEN BOOLEAN ELSE {FALSE})
    /\ enSetDisplay \in (IF enPass = "gbif" THEN {TRUE} ELSE BOOLEAN)
    /\ enSci \in SciUniverse
    /\ enName \in NameUniverse
    /\ enAvail \in AvailUniverse
    /\ enSelected = FALSE
    /\ enUpdate = None
    /\ enSyns = {}
    /\ EnrichOthersIdle

EnrichGate ==
    /\ enPc = "gate"
    /\ enSelected' = Gate(enPass, enSci, enName, enForce)
    /\ enPc' = IF Gate(enPass, enSci, enName, enForce) THEN "stage" ELSE "done"
    /\ UNCHANGED <<enPass, enForce, enSetDisplay, enSci, enName, enAvail,
                   enUpdate, enSyns, enrichOthers>>

EnrichStage(sci2raw, approve) ==
    /\ enPc = "stage"
    /\ LET res ==
             CASE enPass = "dwca" ->
                    StageDwca(enSci, enName, enForce, enAvail, enSetDisplay)
               [] enPass = "plantbook" ->
                    StagePlantbook(enSci, enName, enForce, enAvail,
                                   enSetDisplay, sci2raw, approve)
               [] enPass = "gbif" -> StageGbif(enSci, enName, enAvail)
               [] enPass = "wikidata" ->
                    StageWikidata(enSci, enAvail, enSetDisplay)
               [] enPass = "usda" ->
                    StageUsda(enSci, enName, enAvail, enSetDisplay)
               [] OTHER -> StageInat(enSci, enName, enAvail, enSetDisplay)
       IN  enUpdate' = res.update /\ enSyns' = res.syns
    /\ enPc' = "done"
    /\ UNCHANGED <<enPass, enForce, enSetDisplay, enSci, enName, enAvail,
                   enSelected, enrichOthers>>

NextEnrich ==
    \/ EnrichGate
    \/ \E sci2raw \in { <<>>, <<"c">> } : \E approve \in BOOLEAN :
          EnrichStage(sci2raw, approve)

SpecEnrich == InitEnrich /\ [][NextEnrich]_vars

\* C7: every display-name patch staged by an enrichment pass carries a name
\* that is non-empty and not identical, ignoring case, to the scientific
\* name of the entity it is written to.
C7_PatchNotScientific ==
    enUpdate # None =>
        /\ enUpdate # <<>>
        /\ LowerStr(enUpdate) # LowerStr(OrEmpty(enSci))

C8_Blank(x) == x = None \/ \A i \in 1..Len(x) : x[i] \in Whitespace

C8_Trim(x) == IF x = None THEN <<>> ELSE Strip(x)

C8_Decided == enPc \in {"stage", "done"} /\ enPass # "usda"

\* C8 as stated: in the DwC-A, Plantbook, GBIF, Wikidata, iNaturalist and
\* ITIS passes the gate selects an entity exactly when force is set, or its
\* display name is blank, or its display name equals its scientific name.
C8_Original ==
    C8_Decided =>
        (enSelected <=>
            \/ enForce
            \/ C8_Blank(enName)
            \/ C8_Trim(enName) = C8_Trim(enSci))

\* C8, amended: the DwC-A gate selects an entity exactly when force is set,
\* or its display name is blank, or its scientific name is blank, or the two
\* are equal once trimmed; the Plantbook gate exactly when its scientific
\* name is not blank and force is set, or its display name is blank, or the
\* two are equal once trimmed; the GBIF pass exactly when both names are
\* non-empty and equal as stored; the Wikidata, iNaturalist and ITIS passes
\* exactly when both are non-empty and equal once trimmed (these four passes
\* have no force option and do not select an entity for a blank display
\* name).  In every pass an entity with a non-blank scientific name and a
\* non-blank display name that differs from it once trimmed is not selected
\* when force is unset.
C8_Amended ==
    C8_Decided =>
        /\ enPass = "dwca" =>
              (enSelected <=>
                  \/ enForce
                  \/ C8_Blank(enName)
                  \/ C8_Blank(enSci)
                  \/ C8_Trim(enName) = C8_Trim(enSci))
        /\ enPass = "plantbook" =>
              (enSelected <=>
                  /\ ~C8_Blank(enSci)
                  /\ \/ enForce
                     \/ C8_Blank(enName)
                     \/ C8_Trim(enName) = C8_Trim(enSci))
        /\ enPass = "gbif" =>
              (enSelected <=>
                  enSci \notin {None, <<>>} /\ enName = enSci)
        /\ enPass \in {"wikidata", "inat", "itis"} =>
              (enSelected <=>
                  /\ enSci \notin {None, <<>>}
                  /\ enName \notin {None, <<>>}
                  /\ C8_Trim(enName) = C8_Trim(enSci))
        /\ (/\ ~enForce
            /\ ~C8_Blank(enName)
            /\ ~C8_Blank(enSci)
            /\ C8_Trim(enName) # C8_Trim(enSci)) => ~enSelected

\* a DwC-A run without force that selected, for its blank scientific
\* name, an entity with a display name of its own
C8_Witness ==
    /\ enPc = "done"
    /\ enPass = "dwca"
    /\ ~enForce
    /\ enSelected
    /\ C8_Blank(enSci)
    /\ ~C8_Blank(enName)

\* C9 as stated: with force unset, an entity whose display name is
\* non-blank and differs from its scientific name has no display-name
\* update staged.
C9_Original ==
    (/\ enPc = "done"
     /\ ~enForce
     /\ ~C8_Blank(enName)
     /\ OrEmpty(enName) # OrEmpty(enSci)) => enUpdate = None

\* C9, amended: with force unset, an entity whose display name is non-blank
\* and differs from its scientific name once surrounding whitespace is
\* trimmed from both has no display-name update staged (a display name
\* that differs from the scientific name only by surrounding whitespace is
\* treated as equal to it and can be overwritten).
C9_Amended ==
    (/\ enPc = "done"
     /\ ~enForce
     /\ ~C8_Blank(enName)
     /\ C8_Trim(enName) # C8_Trim(enSci)) => enUpdate = None

\* a finished Wikidata run on an entity named otherwise than its
\* scientific name, for which the source holds a proper common name
C9_Witness ==
    /\ enPc = "done"
    /\ enPass = "wikidata"
    /\ enSetDisplay
    /\ enSci = <<"a">>
    /\ enName = <<"b">>
    /\ enAvail = <<"A">>
    /\ enUpdate = None

C10_Distinct ==
    /\ enPc = "done"
    /\ ~enForce
    /\ ~C8_Blank(enName)
    /\ C8_Trim(enName) # C8_Trim(enSci)

\* C10 as stated: with force unset, for an entity whose display name is
\* non-blank and differs from its scientific name, the name the source
\* holds for it is still added to the staged synonym records.
C10_Original ==
    (C10_Distinct /\ enAvail \notin {None, <<>>}
       /\ LowerStr(enAvail) # LowerStr(C8_Trim(enSci)))
        => enAvail \in enSyns

\* C10, amended: with force unset, an entity whose display name is
\* non-blank and differs from its scientific name once trimmed gets no
\* synonym record and no display-name update from the DwC-A, Plantbook,
\* GBIF, Wikidata, iNaturalist and ITIS passes; only the USDA pass, when it
\* resolves the entity, adds the common name found for it to the synonym
\* records while leaving its display name unchanged.
C10_Amended ==
    C10_Distinct =>
        /\ enUpdate = None
        /\ enPass # "usda" => enSyns = {}
        /\ (enPass = "usda" /\ enSelected /\ enAvail \notin {None, <<>>})
              => enSyns = {enAvail}

\* a finished USDA run that added the common name of an entity named
\* otherwise, with display updates enabled
C10_Witness ==
    /\ enPc = "done"
    /\ enPass = "usda"
    /\ enSetDisplay
    /\ enSelected
    /\ enSci = <<"a">>
    /\ enName = <<"b">>
    /\ enAvail = <<"A">>
    /\ enSyns = {enAvail}
    /\ enUpdate = None

(***************************************************************************)
(* _parallel_update_plants: the pairs are cut into chunks of `batch`, one  *)
(* job per chunk runs on the worker pool and updates its rows one by one,  *)
(* and the caller adds up the jobs' counts as they complete.  A step of a  *)
(* job is one row; the jobs interleave freely.                             *)
(***************************************************************************)
MaxPairs == 3

MaxUpdBatch == 2

\* chunks = [pairs[i:i+batch] for i in range(0, len(pairs), batch)]
UpdChunks == Chunks(udPairs, udBatch)

\* the index in pairs of the j-th row of chunk k
UpdRow(k, j) == (k - 1) * udBatch + j

\* a job that gives up its chunk at the first failing row
AbortOnFail(pos, len, ok) == IF ok THEN pos + 1 ELSE len

\* the except clause is inside the loop over the chunk: the loop goes on
UpdNextPos(pos, len, ok) == pos + 1

InitUpdate ==
    /\ udPc = "pool"
    /\ udPairs \in UNION { [1..n -> BOOLEAN] : n \in 0..MaxPairs }
    /\ udBatch \in 1..MaxUpdBatch
    /\ udPos = [k \in 1..Len(UpdChunks) |-> 0]
    /\ udN = [k \in 1..Len(UpdChunks) |-> 0]
    /\ udAttempts = [i \in 1..Len(udPairs) |-> 0]
    /\ udOk = {}
    /\ udSbFailed = {}
    /\ udCollected = {}
    /\ udUpdated = 0
    /\ UpdateOthersIdle

\* sb2 = _new_sb() raises: the job ends before its first row, and the
\* caller's `except` around f.result() adds nothing for it
UpdateNoClient(k) ==
    /\ udPc = "pool"
    /\ k \in DOMAIN udPos
    /\ udPos[k] = 0
    /\ k \notin udSbFailed
    /\ udSbFailed' = udSbFailed \cup {k}
    /\ udPos' = [udPos EXCEPT ![k] = Len(UpdChunks[k])]
    /\ UNCHANGED <<udPc, udPairs, udBatch, udN, udAttempts, udOk,
                   udCollected, udUpdated, updateOthers>>

\* one turn of `for pid, payload in chunk` in job: a row without payload
\* is passed over, any other row is updated, and counted when the call
\* did not raise
UpdateRow(k, ok) ==
    /\ udPc = "pool"
    /\ k \in DOMAIN udPos
    /\ udPos[k] < Len(UpdChunks[k])
    /\ LET i == UpdRow(k, udPos[k] + 1) IN
       IF ~udPairs[i]
       THEN /\ ok
            /\ udPos' = [udPos EXCEPT ![k] = @ + 1]
            /\ UNCHANGED <<udN, udAttempts, udOk>>
       ELSE /\ udAttempts' = [udAttempts EXCEPT ![i] = @ + 1]
            /\ udOk' = IF ok THEN udOk \cup {i} ELSE udOk
            /\ udN' = [udN EXCEPT ![k] = IF ok THEN @ + 1 ELSE @]
            /\ udPos' = [udPos EXCEPT
                           ![k] = UpdNextPos(@, Len(UpdChunks[k]), ok)]
    /\ UNCHANGED <<udPc, udPairs, udBatch, udSbFailed, udCollected,
                   udUpdated, updateOthers>>

\* for f in as_completed(futs): updated += f.result()
UpdateCollect(k) ==
    /\ udPc = "pool"
    /\ k \in DOMAIN udPos
    /\ k \notin udCollected
    /\ udPos[k] = Len(UpdChunks[k])
    /\ udCollected' = udCollected \cup {k}
    /\ udUpdated' = udUpdated + udN[k]
    /\ UNCHANGED <<udPc, udPairs, udBatch, udPos, udN, udAttempts, udOk,
                   udSbFailed, updateOthers>>

\* return updated
UpdateReturn ==
    /\ udPc = "pool"
    /\ PoolDrained(udCollected, DOMAIN udPos)
    /\ udPc' = "done"
    /\ UNCHANGED <<udPairs, udBatch, udPos, udN, udAttempts, udOk,
                   udSbFailed, udCollected, udUpdated, updateOthers>>

NextUpdate ==
    \/ \E k \in 1..MaxPairs : UpdateNoClient(k)
    \/ \E k \in 1..MaxPairs : \E ok \in BOOLEAN : UpdateRow(k, ok)
    \/ \E k \in 1..MaxPairs : UpdateCollect(k)
    \/ UpdateReturn

SpecUpdate == InitUpdate /\ [][NextUpdate]_vars

\* C11: in _parallel_update_plants, whatever rows fail, each row with a
\* non-empty patch is attempted exactly once (a failing row stops neither
\* the rows after it in its chunk nor the other chunks), and the count
\* returned is the number of rows whose update succeeded.  The rows are
\* those of the chunks whose job got its client: the claim is about the
\* failures of row updates.
C11_EachRowOnceAndCounted ==
    /\ udPc # "idle" =>
          \A i \in DOMAIN udAttempts :
              udAttempts[i] <= (IF udPairs[i] THEN 1 ELSE 0)
    /\ udPc = "done" =>
          /\ \A k \in DOMAIN udPos \ udSbFailed :
                \A j \in 1..Len(UpdChunks[k]) :
                    udAttempts[UpdRow(k, j)] =
                        (IF udPairs[UpdRow(k, j)] THEN 1 ELSE 0)
          /\ udUpdated = Cardinality(udOk)

\* a finished call in which the first row of a two-row chunk failed, the
\* second succeeded, and a row of another chunk succeeded too
C11_Witness ==
    /\ udPc = "done"
    /\ udBatch = 2
    /\ Len(udPairs) = 3
    /\ \A i \in 1..3 : udPairs[i] /\ udAttempts[i] = 1
    /\ udSbFailed = {}
    /\ udOk = {2, 3}
    /\ udUpdated = 2

(***************************************************************************)
(* The write-back step against the store, applied twice with the same      *)
(* patches and records.  The store is outside the repository's code: it is *)
(* taken as the tables plants (one row per id, a patch overwrites the      *)
(* columns it names) and plant_synonyms (an insert is skipped when a row   *)
(* of the same natural key is there already).                              *)
(***************************************************************************)
MaxWbRows == 2

WbPids == {1, 2}

\* a column a patch does not name
Absent == "absent"

\* the patches: {} and patches naming one or both columns
WbPayloads ==
    { [plant_name |-> Absent, gbif_usage_key |-> Absent],
      [plant_name |-> "x", gbif_usage_key |-> Absent],
      [plant_name |-> "y", gbif_usage_key |-> "7"] }

\* records of one key in two spellings, and one the de-dupe of
\* enrich_gbif_dwca.py takes for the same while its stored key differs
WbRowUniverse ==
    { [plant_id |-> 1, name |-> <<"a">>, kind |-> "common", locale |-> "en"],
      [plant_id |-> 1, name |-> <<"A">>, kind |-> "common", locale |-> "en"],
      [plant_id |-> 1, name |-> <<"a">>, kind |-> "None",   locale |-> "en"] }

\* `if not payload`
EmptyPayload(p) == p.plant_name = Absent /\ p.gbif_usage_key = Absent

\* .update(payload).eq("id", pid): the named columns are overwritten
ApplyPatch(row, p) ==
    [plant_name |-> IF p.plant_name = Absent THEN row.plant_name
                    ELSE p.plant_name,
     gbif_usage_key |-> IF p.gbif_usage_key = Absent THEN row.gbif_usage_key
                        ELSE p.gbif_usage_key]

\* the natural key of a stored synonym row
StoreKey(r) == <<r.plant_id, LowerStr(OrEmpty(r.name)), r.kind, r.locale>>

\* ignore_duplicates=True: the row meets a stored row of its key
Conflict(table, r) ==
    \E i \in 1..Len(table) : StoreKey(table[i]) = StoreKey(r)

\* a plain insert of the rows: .insert(uniq)
InsertAll(table, rows, i) == table \o rows

RECURSIVE UpsertInto(_, _, _)
\* .upsert(uniq, ignore_duplicates=True): the rows in order, conflicts
\* skipped
UpsertInto(table, rows, i) ==
    IF i > Len(rows) THEN table
    ELSE UpsertInto(IF Conflict(table, rows[i]) THEN table
                    ELSE Append(table, rows[i]),
                    rows, i + 1)

\* the units of one application: an update per patch, a request per chunk
WbUnits ==
    { <<"u", i>> : i \in 1..Len(wbPairs) } \cup
    { <<"s", k>> : k \in 1..Len(Chunks(wbRows, wbBatch)) }

InitWb ==
    /\ wbPc = "r1"
    /\ wbVariant \in {"dwca", "ingest"}
    /\ wbPairs \in { s \in UNION { [1..n -> WbPids \X WbPayloads] :
                                     n \in 0..Cardinality(WbPids) } :
                       \A i, j \in 1..Len(s) : i # j => s[i][1] # s[j][1] }
    /\ wbRows \in UNION { [1..n -> WbRowUniverse] : n \in 0..MaxWbRows }
    /\ wbBatch \in 1..MaxBatch
    /\ wbPlants = [p \in WbPids |->
                     [plant_name |-> "old", gbif_usage_key |-> "None"]]
    /\ wbSyn \in { <<>>,
                   <<[plant_id |-> 1, name |-> <<"A">>, kind |-> "common",
                      locale |-> "en"]>> }
    /\ wbTodo = WbUnits
    /\ wbSnap = <<>>
    /\ wbClean = TRUE
    /\ WbOthersIdle

\* one row of _parallel_update_plants.job
WbUpdate(i, ok) ==
    /\ wbPc \in {"r1", "r2"}
    /\ <<"u", i>> \in wbTodo
    /\ LET pid == wbPairs[i][1]
           payload == wbPairs[i][2]
       IN  IF EmptyPayload(payload)
           THEN ok /\ UNCHANGED <<wbPlants, wbClean>>
           ELSE /\ wbPlants' = IF ok
                               THEN [wbPlants EXCEPT
                                       ![pid] = ApplyPatch(@, payload)]
                               ELSE wbPlants
                /\ wbClean' = (wbClean /\ (ok \/ wbPc = "r2"))
    /\ wbTodo' = wbTodo \ {<<"u", i>>}
    /\ UNCHANGED <<wbPc, wbVariant, wbPairs, wbRows, wbBatch, wbSyn, wbSnap,
                   wbOthers>>

\* one job of _parallel_upsert_synonyms, called when
\* _parallel_update_plants has returned
WbUpsert(k, ok) ==
    /\ wbPc \in {"r1", "r2"}
    /\ <<"s", k>> \in wbTodo
    /\ \A u \in wbTodo : u[1] # "u"
    /\ LET uniq == Dedup(Chunks(wbRows, wbBatch)[k], wbVariant) IN
       wbSyn' = IF ok THEN UpsertInto(wbSyn, uniq, 1) ELSE wbSyn
    /\ wbClean' = (wbClean /\ (ok \/ wbPc = "r2"))
    /\ wbTodo' = wbTodo \ {<<"s", k>>}
    /\ UNCHANGED <<wbPc, wbVariant, wbPairs, wbRows, wbBatch, wbPlants,
                   wbSnap, wbOthers>>

\* the first application is over: the same patches and records again
WbAgain ==
    /\ wbPc = "r1"
    /\ wbTodo = {}
    /\ wbPc' = "r2"
    /\ wbSnap' = <<wbPlants, wbSyn>>
    /\ wbTodo' = WbUnits
    /\ UNCHANGED <<wbVariant, wbPairs, wbRows, wbBatch, wbPlants, wbSyn,
                   wbClean, wbOthers>>

WbEnd ==
    /\ wbPc = "r2"
    /\ wbTodo = {}
    /\ wbPc' = "done"
    /\ UNCHANGED <<wbVariant, wbPairs, wbRows, wbBatch, wbPlants, wbSyn,
                   wbTodo, wbSnap, wbClean, wbOthers>>

NextWb ==
    \/ \E i \in 1..Cardinality(WbPids) : \E ok \in BOOLEAN : WbUpdate(i, ok)
    \/ \E k \in 1..MaxWbRows + 1 : \E ok \in BOOLEAN : WbUpsert(k, ok)
    \/ WbAgain
    \/ WbEnd

SpecWb == InitWb /\ [][NextWb]_vars

\* C12: the write-back step is idempotent.  When the patches and records
\* have been applied once with no request failing, applying them again,
\* in any order of the jobs and whichever requests of the second
\* application fail, leaves the two tables as the first application left
\* them.
C12_WriteBackIdempotent ==
    (wbPc \in {"r2", "done"} /\ wbClean) => <<wbPlants, wbSyn>> = wbSnap

\* both applications are over without a failure in the first; the first
\* one patched an entity and inserted a synonym, and skipped a record
\* whose key was stored already
C12_Witness ==
    /\ wbPc = "done"
    /\ wbClean
    /\ \E p \in WbPids : wbPlants[p].plant_name # "old"
    /\ Len(wbSyn) = 2
    /\ \E i \in 1..Len(wbRows) :
          /\ \A j \in 1..Len(wbSyn) : wbSyn[j] # wbRows[i]
          /\ \E j \in 1..Len(wbSyn) : StoreKey(wbSyn[j]) = StoreKey(wbRows[i])

(***************************************************************************)
(* The write path of _parallel_upsert_synonyms under a failing request.    *)
(* job sends its chunk's records in one request and makes no other: the    *)
(* records of a request that raised, for a request too large as for any    *)
(* other reason, are not sent again.                                       *)
(***************************************************************************)
\* C13: a synonym chunk whose bulk upsert fails as too large is retried in
\* halves down to size 1, so that a record is dropped only when a request
\* holding it alone has failed: when the call returns, every failed
\* request that was not followed by a retry held one record.
C13_DropOnlyAtSizeOne ==
    upPc = "done" =>
        \A k \in DOMAIN upReqs :
            upStatus[k] = "failed" => Len(upReqs[k]) <= 1

(***************************************************************************)
(* Termination of the read loop.  _fetch_scientific_synonyms starts from   *)
(* max(1, in_max); _safe_in_select starts from start_size as it is passed, *)
(* and enrich_usda_common_names passes int(SUPABASE_IN_MAX) unclamped.     *)
(***************************************************************************)
InitShrinkEnv ==
    /\ shPc = "loop"
    /\ shFn \in {"fetch", "safe"}
    /\ shN \in 0..MaxIds
    /\ shI = 0
    /\ \E in_max \in 0..MaxInMax :
          shStart = IF shFn = "fetch" THEN Max(1, in_max) ELSE in_max
    /\ shSize = shStart
    /\ shCover = [id \in 1..shN |-> 0]
    /\ shFail1 = {}
    /\ shSkipSize = [id \in 1..shN |-> 0]
    /\ shOther = FALSE
    /\ shIter = 0
    /\ ShrinkOthersIdle

SpecShrinkEnv == InitShrinkEnv /\ [][NextShrink]_vars

\* the loop goes on while it has a turn to take
FairSpecShrinkEnv == SpecShrinkEnv /\ WF_vars(NextShrink)

\* C14: the chunk-shrink-and-retry loop terminates for every input list
\* and every pattern of request failures: each turn of the loop either
\* advances the window or strictly decreases the chunk size, the chunk
\* size never increases, and the loop returns.
C14_ShrinkTerminates ==
    /\ [][shIter' # shIter =>
             /\ shI' > shI \/ shSize' < shSize
             /\ shSize' <= shSize]_vars
    /\ <>(shPc = "done")

(***************************************************************************)
(* The row budget.  enrich_gbif, enrich_wikidata, enrich_inat and          *)
(* enrich_itis read plants page by page, cut the page's candidates to the  *)
(* budget left, look them up, write the updates and add the number of rows *)
(* written to `processed`.  enrich_from_backbone gathers candidates over   *)
(* the pages, cuts the list to max_rows and applies once.  A page is       *)
(* given by the number of its rows that pass the gate.                     *)
(***************************************************************************)
MaxPages == 3

MaxNeed == 2

MaxBudget == 3

\* a page loop that hands every candidate of the page on
TruncateNever(need, budget) == need

\* if len(need) > budget: need = need[:budget]
Truncate(need, budget) == IF need > budget THEN budget ELSE need

InitBudget ==
    /\ bgPc = "scan"
    /\ bgFn \in {"ingest", "dwca"}
    /\ bgMax \in 0..MaxBudget
    /\ bgPages \in UNION { [1..n -> 0..MaxNeed] : n \in 0..MaxPages }
    /\ bgPage = 0
    /\ bgNeed = 0
    /\ bgProcessed = 0
    /\ bgLookups = 0
    /\ bgWritten = 0
    /\ BudgetOthersIdle

\* one turn of `while True` in plants_ingest.py: a page without candidates
\* is passed; with processed >= max_rows the run returns; otherwise the
\* candidates are cut to the budget left and looked up, some get an update
\* staged, some of these are written, and processed += updated
IngestPage ==
    /\ bgPc = "scan"
    /\ bgFn = "ingest"
    /\ bgPage < Len(bgPages)
    /\ LET need == bgPages[bgPage + 1] IN
       IF need = 0
       THEN /\ bgPage' = bgPage + 1
            /\ UNCHANGED <<bgPc, bgProcessed, bgLookups, bgWritten>>
       ELSE IF bgProcessed >= bgMax
       THEN /\ bgPc' = "done"
            /\ UNCHANGED <<bgPage, bgProcessed, bgLookups, bgWritten>>
       ELSE \E updates \in 0..Truncate(need, bgMax - bgProcessed) :
            \E updated \in 0..updates :
               /\ bgLookups' = bgLookups + Truncate(need, bgMax - bgProcessed)
               /\ bgWritten' = bgWritten + updated
               /\ bgProcessed' = bgProcessed + updated
               /\ bgPage' = bgPage + 1
               /\ UNCHANGED bgPc
    /\ UNCHANGED <<bgFn, bgMax, bgPages, bgNeed, budgetOthers>>

\* one turn of `while True` in enrich_from_backbone: the page's candidates
\* join need_rows; `if max_rows and len(need_rows) >= max_rows` cuts the
\* list and ends the scan
DwcaPage ==
    /\ bgPc = "scan"
    /\ bgFn = "dwca"
    /\ bgPage < Len(bgPages)
    /\ LET need == bgNeed + bgPages[bgPage + 1] IN
       IF bgMax # 0 /\ need >= bgMax
       THEN bgNeed' = bgMax /\ bgPc' = "apply"
       ELSE bgNeed' = need /\ UNCHANGED bgPc
    /\ bgPage' = bgPage + 1
    /\ UNCHANGED <<bgFn, bgMax, bgPages, bgProcessed, bgLookups, bgWritten,
                   budgetOthers>>

\* `if not rows: break`: the table is read through
ScanEnd ==
    /\ bgPc = "scan"
    /\ bgPage = Len(bgPages)
    /\ bgPc' = IF bgFn = "dwca" THEN "apply" ELSE "done"
    /\ UNCHANGED <<bgFn, bgMax, bgPages, bgPage, bgNeed, bgProcessed,
                   bgLookups, bgWritten, budgetOthers>>

\* enrich_from_backbone after the scan: every row of need_rows is looked
\* up in the index, some get an update staged, some of these are written
DwcaApply ==
    /\ bgPc = "apply"
    /\ \E updates \in 0..bgNeed :
       \E updated \in 0..updates :
          /\ bgLookups' = bgNeed
          /\ bgWritten' = updated
    /\ bgPc' = "done"
    /\ UNCHANGED <<bgFn, bgMax, bgPages, bgPage, bgNeed, bgProcessed,
                   budgetOthers>>

NextBudget ==
    \/ IngestPage
    \/ DwcaPage
    \/ ScanEnd
    \/ DwcaApply

SpecBudget == InitBudget /\ [][NextBudget]_vars

\* max_rows is a budget: an integer in plants_ingest.py, a non-zero one in
\* enrich_from_backbone (`if max_rows and ...`)
HasBudget == bgPc # "idle" /\ (bgFn = "ingest" \/ bgMax # 0)

\* C15: in a run with a max-rows budget the number of entity rows whose
\* update is written never exceeds the budget, and in the page loop of
\* plants_ingest.py the counter processed never exceeds max_rows.
C15_WrittenWithinBudget ==
    HasBudget => bgWritten <= bgMax /\ bgProcessed <= bgMax

\* a run over several pages that cut a page's candidates to the budget
\* left and wrote exactly max_rows rows
C15_Witness ==
    /\ bgFn = "ingest"
    /\ bgPc = "done"
    /\ bgPage >= 2
    /\ bgMax = MaxBudget
    /\ bgWritten = bgMax
    /\ bgProcessed = bgMax
    /\ bgPages[1] + bgPages[2] > bgMax

\* C16: in the page loop of plants_ingest.py the entities handed to the
\* lookups over the whole run never number more than max_rows.
C16_LookupsWithinBudget ==
    (bgPc # "idle" /\ bgFn = "ingest") => bgLookups <= bgMax

(***************************************************************************)
(* The totals of the two pool functions.  Each job counts in a variable of *)
(* its own (n, len(uniq)); the total is added up by the caller alone, in   *)
(* its as_completed loop, one finished job at a time.                      *)
(***************************************************************************)
SpecPool ==
    (InitUpdate \/ InitUpsert) /\ [][NextUpdate \/ NextUpsert]_vars

RECURSIVE SumTo(_, _)
\* f[1] + ... + f[n]
SumTo(f, n) == IF n = 0 THEN 0 ELSE f[n] + SumTo(f, n - 1)

\* what the jobs consumed so far have returned
UpdCollectedSum ==
    SumTo([k \in DOMAIN udN |-> IF k \in udCollected THEN udN[k] ELSE 0],
          Len(udN))

\* what the synonym jobs consumed so far have returned, from the input and
\* the requests' outcomes alone
UpsCollectedSum ==
    SumTo([k \in DOMAIN upStatus |->
             IF k \notin upCollected THEN 0
             ELSE IF upVariant = "ingest" /\ upStatus[k] = "failed" THEN 0
             ELSE Len(Dedup(Chunks(upRows, upBatch)[k], upVariant))],
          Len(upStatus))

\* C17: the totals of _parallel_update_plants and _parallel_upsert_synonyms
\* do not depend on the interleaving or the completion order of the chunk
\* jobs: at every moment the total is the sum of the results of the jobs
\* consumed so far, a job is consumed only when it has completed, and the
\* total is returned only when every job has completed and been consumed,
\* so that it is fixed by the input and the outcomes of the requests.
C17_TotalsOrderFree ==
    /\ udPc # "idle" =>
          /\ udUpdated = UpdCollectedSum
          /\ \A k \in udCollected : udPos[k] = Len(UpdChunks[k])
          /\ \A k \in DOMAIN udN :
                udN[k] = Cardinality({ j \in 1..udPos[k] :
                                         UpdRow(k, j) \in udOk })
    /\ udPc = "done" =>
          /\ udCollected = DOMAIN udPos
          /\ udUpdated = Cardinality(udOk)
    /\ upPc # "idle" =>
          /\ upSent = UpsCollectedSum
          /\ \A k \in upCollected : upStatus[k] # "pending"
    /\ upPc = "done" => upCollected = DOMAIN upStatus

\* three chunks consumed in another order than they were submitted: the
\* caller has added the result of chunk 3 while the job of chunk 1 has
\* not begun
C17_Witness ==
    /\ udPc = "pool"
    /\ Len(udPos) = 3
    /\ 3 \in udCollected
    /\ 1 \notin udCollected
    /\ udPos[1] = 0
    /\ udUpdated = 1

(***************************************************************************)
(* De-duplication in _parallel_upsert_synonyms is done by each job on its  *)
(* own chunk, after the rows were cut into chunks: the same key can be in  *)
(* the requests of two chunks.                                             *)
(***************************************************************************)
\* the keys of job's de-dupe met in chunk k
ChunkKeys(k) ==
    { SynKey(Chunks(upRows, upBatch)[k][i], upVariant) :
        i \in 1..Len(Chunks(upRows, upBatch)[k]) }

\* the natural keys of the whole input
InputKeys == { ClaimKey(upRows[i]) : i \in 1..Len(upRows) }

\* the requests that carry a record of natural key key
RequestsWith(key) ==
    { k \in DOMAIN upReqs :
        \E i \in 1..Len(upReqs[k]) : ClaimKey(upReqs[k][i]) = key }

\* C18 as stated: over all the chunks of one call no natural key is
\* transmitted more than once, and the count of records sent is the number
\* of distinct keys of the input.
C18_Original ==
    /\ \A key \in InputKeys : Cardinality(RequestsWith(key)) <= 1
    /\ (upPc = "done" /\ \A k \in DOMAIN upStatus : upStatus[k] = "ok")
          => upSent = Cardinality(InputKeys)

\* C18 amended: de-duplication is per chunk.  The request of a chunk holds
\* one record for each key of job's de-dupe met in the chunk, and the
\* count returned is the sum of these numbers over the chunks (in
\* plants_ingest.py without the chunks whose request failed); a key that
\* is in two chunks is transmitted by both.
C18_Amended ==
    /\ \A k \in DOMAIN upStatus :
          upStatus[k] # "pending" =>
             /\ Len(upReqs[k]) = Cardinality(ChunkKeys(k))
             /\ { SynKey(upReqs[k][i], upVariant) : i \in 1..Len(upReqs[k]) }
                   = ChunkKeys(k)
    /\ upPc = "done" =>
          upSent = SumTo([k \in DOMAIN upStatus |->
                            IF upVariant = "ingest" /\ upStatus[k] = "failed"
                            THEN 0 ELSE Cardinality(ChunkKeys(k))],
                         Len(upStatus))

\* a finished call without a failed request in which two chunks each
\* transmitted a record of the same natural key, and a third record was
\* removed as a duplicate inside its chunk
C18_Witness ==
    /\ upPc = "done"
    /\ \A k \in DOMAIN upStatus : upStatus[k] = "ok"
    /\ Len(upRows) = 3
    /\ upBatch = 2
    /\ Cardinality(InputKeys) = 1
    /\ Cardinality(RequestsWith(ClaimKey(upRows[1]))) = 2
    /\ upSent = 2

(***************************************************************************)
(* enrich_gbif and the usage key.  An entity of the page either has a      *)
(* cached gbif_usage_key or is matched by name; the key found is used to   *)
(* fetch the vernacular names.  Phase A stages a patch for the entities    *)
(* with a usable common name, Phase B retries the others through their     *)
(* scientific synonyms.  A patch is (plant_name, gbif_usage_key), with ""  *)
(* and 0 for a column the patch does not name.                             *)
(***************************************************************************)
\* three usage keys: the one cached on the row, the one the name match
\* gives, the one a synonym's match gives
GbifKeys == [cached |-> 7, primary |-> 5, synonym |-> 8]

\* need_alt = (not common) or (common.strip().lower() == sci.strip().lower())
NeedAlt(common) == common \in {"none", "sci"}

\* payload = {kk: vv for kk, vv in payload.items() if kk in allowed}
FilterAllowed(p, allowed) ==
    [plant_name |-> IF "plant_name" \in allowed THEN p.plant_name ELSE "",
     gbif_usage_key |-> IF "gbif_usage_key" \in allowed THEN p.gbif_usage_key
                        ELSE 0]

\* `if payload`
NonEmptyPatch(p) == p.plant_name # "" \/ p.gbif_usage_key # 0

InitGkey ==
    /\ gkPc = "match"
    /\ gkCached \in {0, GbifKeys.cached}
    /\ gkMatch \in {"miss", "nokey", "key"}
    /\ gkCommon \in {"none", "sci", "good"}
    /\ gkAlt \in BOOLEAN
    /\ gkAllowed \in SUBSET {"plant_name", "gbif_usage_key"}
    /\ gkKey = 0
    /\ gkInMatchMap = FALSE
    /\ gkUpdates = <<>>
    /\ GkeyOthersIdle

\* have_key / no_key, the match of a row without key, key_by_pid
GkMatch ==
    /\ gkPc = "match"
    /\ IF gkCached # 0
       THEN gkKey' = gkCached /\ gkInMatchMap' = FALSE
       ELSE /\ gkInMatchMap' = (gkMatch # "miss")
            /\ gkKey' = IF gkMatch = "key" THEN GbifKeys.primary ELSE 0
    /\ gkPc' = "build"
    /\ UNCHANGED <<gkCached, gkMatch, gkCommon, gkAlt, gkAllowed, gkUpdates,
                   gkeyOthers>>

\* `for r in need` of Phase A: the patch of an entity with a usable common
\* name carries the key when the entity was matched in this run; the
\* other entities become targets of Phase B
GkBuild ==
    /\ gkPc = "build"
    /\ LET common == IF gkKey # 0 THEN gkCommon ELSE "none"
           payload == FilterAllowed(
                         [plant_name |-> "good",
                          gbif_usage_key |-> IF gkInMatchMap THEN gkKey
                                             ELSE 0],
                         gkAllowed)
       IN  IF NeedAlt(common)
           THEN gkPc' = "alt" /\ UNCHANGED gkUpdates
           ELSE /\ gkPc' = "done"
                /\ gkUpdates' = IF NonEmptyPatch(payload) THEN <<payload>>
                                ELSE <<>>
    /\ UNCHANGED <<gkCached, gkMatch, gkCommon, gkAlt, gkAllowed, gkKey,
                   gkInMatchMap, gkeyOthers>>

\* Phase B for one target: when a synonym's key yields a usable name, a
\* patch with that name and that key is staged; otherwise nothing is
GkAlt ==
    /\ gkPc = "alt"
    /\ gkUpdates' = IF gkAlt
                    THEN <<FilterAllowed([plant_name |-> "good",
                                          gbif_usage_key |-> GbifKeys.synonym],
                                         gkAllowed)>>
                    ELSE <<>>
    /\ gkPc' = "done"
    /\ UNCHANGED <<gkCached, gkMatch, gkCommon, gkAlt, gkAllowed, gkKey,
                   gkInMatchMap, gkeyOthers>>

NextGkey ==
    \/ GkMatch
    \/ GkBuild
    \/ GkAlt

SpecGkey == InitGkey /\ [][NextGkey]_vars

\* C19: whenever the name match of an entity without cached
\* gbif_usage_key yields a usage key, that key is staged in a patch for
\* the entity in the same run, whether or not a usable common name was
\* found for it.
C19_PrimaryKeyStaged ==
    (gkPc = "done" /\ gkCached = 0 /\ gkMatch = "key"
       /\ "gbif_usage_key" \in gkAllowed) =>
        \E i \in 1..Len(gkUpdates) :
            gkUpdates[i].gbif_usage_key = GbifKeys.primary

(***************************************************************************)
(* The getters of the remote registries: _aget, _inat_get and _itis_get    *)
(* share one retry loop; gbif_match, the synchronous getter, has its own.  *)
(* A request is answered with a status or fails in transport (0 here).     *)
(***************************************************************************)
MaxTries == 3

\* for i in range(3) of gbif_match
GbifMatchTries == 3

\* a getter that retries after no status at all
HttpRetryNone == {}

\* if r.status_code in (429, 500, 502, 503, 504)
HttpRetryable == {429, 500, 502, 503, 504}

\* the answers a request can get: transport error, success, a retryable
\* status of each kind, and other statuses
HttpAnswers == {0, 200, 404, 410, 429, 503}

\* the statuses that are neither 200 nor retryable
HttpOther == (HttpAnswers \ {0, 200}) \ HttpRetryable

InitHttp ==
    /\ htPc = "loop"
    /\ htFn \in {"_aget", "_inat_get", "_itis_get", "gbif_match"}
    /\ htTries \in IF htFn = "gbif_match" THEN {GbifMatchTries}
                   ELSE 0..MaxTries
    /\ htI = 0
    /\ htLog = <<>>
    /\ htResult = "none"
    /\ HttpOthersIdle

\* one turn of the retry loop.  _aget, _inat_get, _itis_get: 200 returns
\* the body, a retryable status or a transport error sleeps and goes on,
\* any other status returns None.  gbif_match: 200 returns the body, 429
\* sleeps, and every other answer falls through to the next turn.
HttpTry(answer) ==
    /\ htPc = "loop"
    /\ htI < htTries
    /\ htLog' = Append(htLog, answer)
    /\ IF answer = 200
       THEN htPc' = "done" /\ htResult' = "json" /\ UNCHANGED htI
       ELSE IF htFn # "gbif_match" /\ answer # 0 /\ answer \notin HttpRetryable
       THEN htPc' = "done" /\ htResult' = "miss" /\ UNCHANGED htI
       ELSE htI' = htI + 1 /\ UNCHANGED <<htPc, htResult>>
    /\ UNCHANGED <<htFn, htTries, httpOthers>>

\* the loop is exhausted: return None
HttpGiveUp ==
    /\ htPc = "loop"
    /\ htI >= htTries
    /\ htPc' = "done"
    /\ htResult' = "miss"
    /\ UNCHANGED <<htFn, htTries, htI, htLog, httpOthers>>

NextHttp ==
    \/ \E answer \in HttpAnswers : HttpTry(answer)
    \/ HttpGiveUp

SpecHttp == InitHttp /\ [][NextHttp]_vars

\* C20: a call of _aget, _inat_get, _itis_get or gbif_match that receives
\* a status other than 200 and other than 429/500/502/503/504 ends at
\* once with a miss: the answer is the last one the call receives.
C20_OtherStatusEndsCall ==
    \A j \in 1..Len(htLog) :
        htLog[j] \in HttpOther =>
            /\ j = Len(htLog)
            /\ htPc = "done"
            /\ htResult = "miss"

\* the answers after which the asynchronous getters try again: a
\* transport error or one of the five statuses
TryAgainAnswers == {0, 429, 500, 502, 503, 504}

MaxStartRows == 3

\* the enrichment commands of each program
StartCmds ==
    [plantbook |-> {"scan_db", "scan_pb"},
     ingest    |-> {"enrich-gbif", "enrich-images", "enrich-usda",
                    "enrich-wikidata", "enrich-inat", "enrich-itis"},
     dwca      |-> {"backbone"}]

InitStartup ==
    /\ stPc = "start"
    /\ stProg \in {"plantbook", "ingest", "dwca"}
    /\ stCmd \in StartCmds[stProg]
    /\ stPinged = FALSE
    /\ stPingOk = TRUE
    /\ stLooked = 0
    /\ stWritten = 0
    /\ StartupOthersIdle

\* what follows a failed connectivity query: enrich_from_plantbook
\* returns; main prints the error and goes on to the command;
\* enrich_from_backbone takes the failure for a missing gbif_usage_key
\* column and goes on
AfterFailedPing(prog) == IF prog = "plantbook" THEN "aborted" ELSE "ready"

\* the connectivity query and what the program does with its outcome
StartPing(ok) ==
    /\ stPc = "start"
    /\ stPinged' = TRUE
    /\ stPingOk' = ok
    /\ stPc' = IF ok THEN "ready" ELSE AfterFailedPing(stProg)
    /\ UNCHANGED <<stProg, stCmd, stLooked, stWritten, startupOthers>>

\* the command is executed: its first read of the store succeeds, or
\* raises and ends the run there
StartCommand(ok) ==
    /\ stPc = "ready"
    /\ stPc' = IF ok THEN "running" ELSE "crashed"
    /\ UNCHANGED <<stProg, stCmd, stPinged, stPingOk, stLooked, stWritten,
                   startupOthers>>

\* an entity is looked up
StartLookUp ==
    /\ stPc = "running"
    /\ stLooked < MaxStartRows
    /\ stLooked' = stLooked + 1
    /\ UNCHANGED <<stPc, stProg, stCmd, stPinged, stPingOk, stWritten,
                   startupOthers>>

\* an entity that was looked up is written
StartWrite ==
    /\ stPc = "running"
    /\ stWritten < stLooked
    /\ stWritten' = stWritten + 1
    /\ UNCHANGED <<stPc, stProg, stCmd, stPinged, stPingOk, stLooked,
                   startupOthers>>

StartFinish ==
    /\ stPc = "running"
    /\ stPc' = "finished"
    /\ UNCHANGED <<stProg, stCmd, stPinged, stPingOk, stLooked, stWritten,
                   startupOthers>>

NextStartup ==
    \/ \E ok \in BOOLEAN : StartPing(ok)
    \/ \E ok \in BOOLEAN : StartCommand(ok)
    \/ StartLookUp
    \/ StartWrite
    \/ StartFinish

SpecStartup == InitStartup /\ [][NextStartup]_vars

\* C22: when the connectivity query at startup fails, the run aborts
\* before any entity is looked up or written: no command is executed
\* after the failed query.
C22_AbortsOnFailedStartup ==
    (stPinged /\ ~stPingOk) =>
        /\ stPc = "aborted"
        /\ stLooked = 0
        /\ stWritten = 0

(***************************************************************************)
(* The scorer on its own: _pick_score called twice on one candidate, then  *)
(* _best_locale and the locale derivation of _pick_best_common_name.       *)
(***************************************************************************)
MaxNameLen == 3

ScoreAlphabet == {"a", "fam", " "}

\* names of six and of seven words, for the floor of the word-count term
LongNames ==
    { [i \in 1..11 |-> IF i % 2 = 1 THEN "a" ELSE " "],
      [i \in 1..13 |-> IF i % 2 = 1 THEN "a" ELSE " "] }

ScoreNames ==
    UNION { [1..n -> ScoreAlphabet] : n \in 0..MaxNameLen } \cup LongNames

ScoreLangs == {"", "en", "eng", "de"}

ScoreCountries == {"", "US", "us", "DE"}

InitScore ==
    /\ scPc = "in"
    /\ scName \in ScoreNames
    /\ scPref \in BOOLEAN
    /\ scLang \in ScoreLangs
    /\ scCountry \in ScoreCountries
    /\ scScore = 0
    /\ scScore2 = 0
    /\ scLocale = <<>>
    /\ scGbifLocale = <<>>
    /\ ScoreOthersIdle

\* score = _pick_score(name, preferred, lang, country)
ScoreCall ==
    /\ scPc = "in"
    /\ scPc' = "scored"
    /\ scScore' = pick_score(scName, scPref, scLang, scCountry)
    /\ UNCHANGED <<scName, scPref, scLang, scCountry, scScore2, scLocale,
                   scGbifLocale, scoreOthers>>

\* the same call once more
ScoreAgain ==
    /\ scPc = "scored"
    /\ scPc' = "again"
    /\ scScore2' = pick_score(scName, scPref, scLang, scCountry)
    /\ UNCHANGED <<scName, scPref, scLang, scCountry, scScore, scLocale,
                   scGbifLocale, scoreOthers>>

\* locale = _best_locale(lang, country), and the locale that
\* _pick_best_common_name derives for the same candidate
LocaleCall ==
    /\ scPc = "again"
    /\ scPc' = "done"
    /\ scLocale' = best_locale(scLang, scCountry)
    /\ scGbifLocale' = GbifLocale([name |-> scName, lang |-> scLang,
                                   country |-> scCountry,
                                   preferred |-> scPref])
    /\ UNCHANGED <<scName, scPref, scLang, scCountry, scScore, scScore2,
                   scoreOthers>>

NextScore ==
    \/ ScoreCall
    \/ ScoreAgain
    \/ LocaleCall

SpecScore == InitScore /\ [][NextScore]_vars

\* the name contains one of the rank-label words, anywhere
HasRankWord(name) ==
    \E i \in 1..Len(name) : LowerStr(name)[i] \in RankLabelWords

\* the sum of the four terms of the scorer
C24_Sum ==
    (IF scLang = "en" \/ scLang = "eng" THEN 10 ELSE 0)
    + (IF scPref THEN 5 ELSE 0)
    + (IF UpperAtom(scCountry) \in {"US", "GB", "CA", "AU", "NZ"}
       THEN 2 ELSE 0)
    + (IF Len(Split(scName)) >= 6 THEN 0 ELSE 6 - Len(Split(scName)))

\* C24: for every name that contains none of the rank-label words,
\* _pick_score(name, preferred, language, country) is 10 for language en or
\* eng, plus 5 for preferred, plus 2 for an upper-cased country in
\* {US, GB, CA, AU, NZ}, plus max(0, 6 - wordCount(name)); a second call
\* with the same arguments gives the same result, and the result lies
\* between 0 and 23.
C24_ScoreFormula ==
    (scPc \in {"again", "done"} /\ ~HasRankWord(scName)) =>
        /\ scScore = C24_Sum
        /\ scScore2 = scScore
        /\ scScore \in 0..23

\* a preferred English name of seven words with country us, scored twice:
\* the word-count term is at its floor
C24_Witness ==
    /\ scPc = "again"
    /\ Len(Split(scName)) = 7
    /\ scPref
    /\ scLang = "eng"
    /\ scCountry = "us"
    /\ scScore = 17
    /\ scScore2 = 17

\* C25: _best_locale(language, country) returns en for language en or eng
\* without a country, en-<COUNTRY upper-cased> for language en or eng with
\* a country, the raw language code for any other non-empty language, and
\* en when the language is absent and no country is given; for a candidate
\* of language en and country US the locale is en-US, from _best_locale
\* and from _pick_best_common_name alike.
C25_LocaleCases ==
    scPc = "done" =>
        /\ (scLang \in {"en", "eng"} /\ scCountry = "")
               => scLocale = <<"en">>
        /\ (scLang \in {"en", "eng"} /\ scCountry # "")
               => scLocale = <<"en", UpperAtom(scCountry)>>
        /\ scLang \notin {"", "en", "eng"} => scLocale = <<scLang>>
        /\ (scLang = "" /\ scCountry = "") => scLocale = <<"en">>
        /\ (scLang = "en" /\ scCountry = "US")
               => scLocale = <<"en", "US">> /\ scGbifLocale = <<"en", "US">>

\* the locale of a candidate of language eng and country us has been
\* derived: en-US
C25_Witness ==
    /\ scPc = "done"
    /\ scLang = "eng"
    /\ scCountry = "us"
    /\ scLocale = <<"en", "US">>

(***************************************************************************)
(* The taxon pass of enrich_from_backbone.  The header of the dump is      *)
(* taxonID, scientificName, canonicalName, taxonRank, kingdom; a row is    *)
(* the list of its cells, which may be shorter than the header.            *)
(***************************************************************************)
MaxDump == 3

\* the position of each wanted column in the header
TaxonCols ==
    [taxonID |-> 1, scientificName |-> 2, canonicalName |-> 3,
     taxonRank |-> 4, kingdom |-> 5]

\* int(row_key) for the identifier cells of the model; a cell outside the
\* domain raises ValueError
IntCells ==
    ("5" :> 5) @@ ("6" :> 6) @@ ("7" :> 7) @@ ("07" :> 7) @@ ("8" :> 8)
    @@ ("9" :> 9)

\* .strip().lower() on a rank or kingdom cell
TaxonNorm(x) ==
    CASE x = "SPECIES"  -> "species"
      [] x = " species" -> "species"
      [] x = "Plantae"  -> "plantae"
      [] x = "Animalia" -> "animalia"
      [] OTHER -> x

TaxonNameAB == <<"a", " ", "b">>

\* the rows a dump is made of
TaxonRowUniverse ==
    { <<"7", <<>>, TaxonNameAB, "species", "Plantae">>,
      <<"07", <<>>, TaxonNameAB, " species", "Plantae">>,
      <<"8", TaxonNameAB \o <<" ", "c">>, <<>>, "SPECIES", "">>,
      <<"x", <<>>, TaxonNameAB, "species", "Plantae">>,
      <<"", <<>>, TaxonNameAB, "species", "Plantae">>,
      <<"7", TaxonNameAB>>,
      <<"9", <<>>, <<"a">>, "species">>,
      <<"5", <<>>, TaxonNameAB, "species", "Animalia">>,
      <<"6", <<>>, <<"c">>, "species", "Plantae">>,
      <<"6", <<>>, TaxonNameAB, "genus", "Plantae">> }

\* iter_tsv_select: cells[i] if i < len(cells) else ""
CellAt(row, col) ==
    LET i == TaxonCols[col] IN
    IF i <= Len(row) THEN row[i]
    ELSE IF col \in {"scientificName", "canonicalName"} THEN <<>> ELSE ""

\* the rows the loop body passes down to the identifier: kingdom blank or
\* plantae, rank species, a name, and the name among need_names
TaxonPasses(row, need) ==
    LET kingdom == TaxonNorm(CellAt(row, "kingdom"))
        rank    == TaxonNorm(CellAt(row, "taxonRank"))
        sci     == Strip(IF CellAt(row, "canonicalName") # <<>>
                         THEN CellAt(row, "canonicalName")
                         ELSE CellAt(row, "scientificName"))
    IN  /\ kingdom = "" \/ kingdom = "plantae"
        /\ rank = "species"
        /\ sci # <<>>
        /\ canon_binomial_dwca(sci) \in need

TaxonName(row) ==
    canon_binomial_dwca(Strip(IF CellAt(row, "canonicalName") # <<>>
                              THEN CellAt(row, "canonicalName")
                              ELSE CellAt(row, "scientificName")))

\* a loop body that appends the key without the membership test
TaxonStepAppend(index, row, need) ==
    IF ~TaxonPasses(row, need) THEN index
    ELSE LET cn      == TaxonName(row)
             row_key == CellAt(row, "taxonID")
         IN  IF row_key \notin DOMAIN IntCells THEN index
             ELSE IF cn \in DOMAIN index
                  THEN [index EXCEPT ![cn] = Append(@, IntCells[row_key])]
                  ELSE index @@ (cn :> <<IntCells[row_key]>>)

\* a loop body that indexes a row without a usable identifier under key 0
TaxonStepZero(index, row, need) ==
    IF ~TaxonPasses(row, need) THEN index
    ELSE LET cn      == TaxonName(row)
             row_key == CellAt(row, "taxonID")
             k       == IF row_key \in DOMAIN IntCells THEN IntCells[row_key]
                        ELSE 0
         IN  IF cn \notin DOMAIN index THEN index @@ (cn :> <<k>>)
             ELSE IF k \in Range(index[cn]) THEN index
             ELSE [index EXCEPT ![cn] = Append(@, k)]

\* the body of the loop over iter_tsv_select(taxon_path, wanted_taxon_cols)
TaxonStep(index, row, need) ==
    IF ~TaxonPasses(row, need) THEN index
    ELSE LET cn      == TaxonName(row)
             row_key == CellAt(row, "taxonID")
         IN  IF row_key = "" \/ row_key \notin DOMAIN IntCells THEN index
             ELSE LET k == IntCells[row_key] IN
                  IF cn \notin DOMAIN index THEN index @@ (cn :> <<k>>)
                  ELSE IF k \in Range(index[cn]) THEN index
                  ELSE [index EXCEPT ![cn] = Append(@, k)]

RECURSIVE TaxonIndexFrom(_, _, _, _)
\* name_to_keys after the rows i.. of a dump
TaxonIndexFrom(rows, i, index, need) ==
    IF i > Len(rows) THEN index
    ELSE TaxonIndexFrom(rows, i + 1, TaxonStep(index, rows[i], need), need)

InitTaxon ==
    /\ txPc = "scan"
    /\ txNeed \in SUBSET { <<"a">>, TaxonNameAB }
    /\ txDump \in UNION { [1..n -> TaxonRowUniverse] : n \in 0..MaxDump }
    /\ txPos = 1
    /\ txIndex = <<>>
    /\ txTarget = {}
    /\ TaxonOthersIdle

\* one row of the dump through the loop body
TaxonRow ==
    /\ txPc = "scan"
    /\ txPos <= Len(txDump)
    /\ txIndex' = TaxonStep(txIndex, txDump[txPos], txNeed)
    /\ txPos' = txPos + 1
    /\ UNCHANGED <<txPc, txNeed, txDump, txTarget, taxonOthers>>

\* the end of the dump: target_keys is filled from the lists of the index
TaxonEnd ==
    /\ txPc = "scan"
    /\ txPos > Len(txDump)
    /\ txTarget' = UNION { Range(txIndex[cn]) : cn \in DOMAIN txIndex }
    /\ txPc' = "done"
    /\ UNCHANGED <<txNeed, txDump, txPos, txIndex, taxonOthers>>

NextTaxon ==
    \/ TaxonRow
    \/ TaxonEnd

SpecTaxon == InitTaxon /\ [][NextTaxon]_vars

\* C28: after the taxon pass of enrich_from_backbone, every key of the name
\* index is a member of need_names, every TaxonKey list in the index is
\* free of duplicates, and target_keys is exactly the union of those lists,
\* for every content of the dump.
C28_IndexWellFormed ==
    txPc = "done" =>
        /\ DOMAIN txIndex \subseteq txNeed
        /\ \A cn \in DOMAIN txIndex :
               \A i, j \in 1..Len(txIndex[cn]) :
                   txIndex[cn][i] = txIndex[cn][j] => i = j
        /\ \A k \in txTarget \cup Range(IntCells) :
               k \in txTarget <=>
                   \E cn \in DOMAIN txIndex :
                       \E i \in 1..Len(txIndex[cn]) : txIndex[cn][i] = k

\* a finished pass over a dump that names the key 7 twice (as 7 and as 07)
\* and the key 8 once for the same needed name
C28_Witness ==
    /\ txPc = "done"
    /\ TaxonNameAB \in txNeed
    /\ Len(txDump) = 3
    /\ { txDump[i][1] : i \in 1..3 } = {"7", "07", "8"}
    /\ TaxonNameAB \in DOMAIN txIndex
    /\ Len(txIndex[TaxonNameAB]) = 2
    /\ txTarget = {7, 8}

\* the columns a row cannot be indexed without; kingdom is optional (a
\* blank kingdom passes the filter)
TaxonNeededCols == {"taxonID", "scientificName", "canonicalName", "taxonRank"}

\* a malformed row: its identifier cell is empty or not an integer, or it
\* is shorter than the header and lacks a needed column
TaxonMalformed(row) ==
    \/ CellAt(row, "taxonID") \notin DOMAIN IntCells
    \/ \E col \in TaxonNeededCols : TaxonCols[col] > Len(row)

\* C29: for every dump, the index built by the taxon pass equals the index
\* built from the same dump with its malformed rows removed (rows whose
\* identifier column is empty or not an integer, and rows shorter than the
\* header that lack a needed column), and the pass reads every row.
C29_MalformedRowsIgnored ==
    txPc = "done" =>
        /\ txPos = Len(txDump) + 1
        /\ txIndex =
               TaxonIndexFrom(
                   SelectSeq(txDump, LAMBDA row : ~TaxonMalformed(row)),
                   1, <<>>, txNeed)

\* a finished pass over a dump that starts with a row of a non-integer
\* identifier and a row cut after its second cell: the third row is indexed
C29_Witness ==
    /\ txPc = "done"
    /\ Len(txDump) = 3
    /\ txDump[1][1] = "x"
    /\ Len(txDump[2]) = 2
    /\ ~TaxonMalformed(txDump[3])
    /\ TaxonNameAB \in DOMAIN txIndex
    /\ txIndex[TaxonNameAB] = <<8>>

(***************************************************************************)
(* enrich_from_plantbook: the candidates are collected from the store      *)
(* (scan_db) or discovered letter by letter from the registry (scan_pb);   *)
(* each candidate is searched, its detail fetched, and its display-name    *)
(* update proposed at the prompt; the approved updates are written last.   *)
(***************************************************************************)
MaxPbCands == 2

MaxLetters == 2

MaxPbPages == 2

\* the answers _prompt_yes_no_one accepts; "" stands for a bare return
PromptInputs == {"y", "n", "a", "s", "q", ""}

\* a prompt that reads its input without looking for a terminal
PromptAnyInput(tty, input) == IF input = "" THEN "n" ELSE input

\* _prompt_yes_no_one(msg): n without a terminal, n for a bare return
PromptYesNoOne(tty, input) ==
    IF ~tty THEN "n" ELSE IF input = "" THEN "n" ELSE input

InitPb ==
    /\ pbPc = "collect"
    /\ pbMode \in {"scan_db", "scan_pb"}
    /\ pbTty \in BOOLEAN
    /\ pbN = 0
    /\ pbI = 0
    /\ pbLetter = 0
    /\ pbPage = 0
    /\ pbCalls = 0
    /\ pbLast = "none"
    /\ pbApproveAll = FALSE
    /\ pbSkipAll = FALSE
    /\ pbAns = <<>>
    /\ pbApproved = <<>>
    /\ pbWritten = {}
    /\ PbOthersIdle

\* the loop over the candidates starts, or the run ends without candidates
PbStartLoop(n) ==
    /\ pbN' = n
    /\ pbAns' = [i \in 1..n |-> "none"]
    /\ IF n = 0 THEN pbPc' = "done" /\ pbI' = 0
       ELSE pbPc' = "search" /\ pbI' = 1

\* mode scan_db: _stream_db_candidates makes no call to the registry
PbCollect ==
    /\ pbPc = "collect"
    /\ pbMode = "scan_db"
    /\ \E n \in 0..MaxPbCands : PbStartLoop(n)
    /\ UNCHANGED <<pbMode, pbTty, pbLetter, pbPage, pbCalls, pbLast,
                   pbApproveAll, pbSkipAll, pbApproved, pbWritten, pbOthers>>

\* mode scan_pb: _discover_pb_then_match_db starts with the first letter
PbDiscoverStart ==
    /\ pbPc = "collect"
    /\ pbMode = "scan_pb"
    /\ pbPc' = "discover"
    /\ pbLetter' = 1
    /\ pbPage' = 1
    /\ UNCHANGED <<pbMode, pbTty, pbN, pbI, pbCalls, pbLast, pbApproveAll,
                   pbSkipAll, pbAns, pbApproved, pbWritten, pbOthers>>

\* one _pb_search_raw of the discovery: it raises (no pause, the letter is
\* given up), or returns no row, a short page or a full page (a pause
\* follows); a page with rows may add a candidate
PbDiscoverPage ==
    /\ pbPc = "discover"
    /\ pbCalls' = pbCalls + 1
    /\ \E outcome \in {"raise", "empty", "short", "full"}, add \in 0..1 :
         /\ outcome = "full" => pbPage < MaxPbPages
         /\ pbLast' = IF outcome = "raise" THEN "call" ELSE "pause"
         /\ LET found == IF outcome \in {"short", "full"} THEN pbN + add
                         ELSE pbN
                enough == found >= MaxPbCands
                nextLetter == outcome # "full"
            IN  IF enough \/ (nextLetter /\ pbLetter = MaxLetters)
                THEN /\ PbStartLoop(found)
                     /\ UNCHANGED <<pbLetter, pbPage>>
                ELSE /\ pbN' = found
                     /\ IF nextLetter
                        THEN pbLetter' = pbLetter + 1 /\ pbPage' = 1
                        ELSE pbPage' = pbPage + 1 /\ UNCHANGED pbLetter
                     /\ UNCHANGED <<pbPc, pbI, pbAns>>
    /\ UNCHANGED <<pbMode, pbTty, pbApproveAll, pbSkipAll, pbApproved,
                   pbWritten, pbOthers>>

\* continue: the next candidate, or the end of the loop
PbAdvance ==
    /\ pbI' = pbI + 1
    /\ pbPc' = IF pbI + 1 > pbN THEN "apply" ELSE "search"

\* results = _pb_search_raw(alias=sci): it raises (continue, no pause), or
\* returns without a hit (pause, continue) or with one (pause)
PbSearch ==
    /\ pbPc = "search"
    /\ pbCalls' = pbCalls + 1
    /\ \E outcome \in {"raise", "nohit", "hit"} :
         /\ pbLast' = IF outcome = "raise" THEN "call" ELSE "pause"
         /\ IF outcome = "hit" THEN pbPc' = "detail" /\ UNCHANGED pbI
            ELSE PbAdvance
    /\ UNCHANGED <<pbMode, pbTty, pbN, pbLetter, pbPage, pbApproveAll,
                   pbSkipAll, pbAns, pbApproved, pbWritten, pbOthers>>

\* detail = _pb_get_detail_raw(pid2) when the hit has a pid: it raises (no
\* pause) or returns (pause)
PbDetail ==
    /\ pbPc = "detail"
    /\ \E outcome \in {"nopid", "raise", "ok"} :
         /\ pbCalls' = IF outcome = "nopid" THEN pbCalls ELSE pbCalls + 1
         /\ pbLast' = CASE outcome = "nopid" -> pbLast
                        [] outcome = "raise" -> "call"
                        [] outcome = "ok"    -> "pause"
    /\ pbPc' = "propose"
    /\ UNCHANGED <<pbMode, pbTty, pbN, pbI, pbLetter, pbPage, pbApproveAll,
                   pbSkipAll, pbAns, pbApproved, pbWritten, pbOthers>>

\* the display update of the candidate: not proposed (no best name, the
\* name is the scientific one, the current name is kept, or skip_all),
\* auto-approved, or answered at the prompt
PbPropose ==
    /\ pbPc = "propose"
    /\ \E proposable \in BOOLEAN, input \in PromptInputs :
         IF ~proposable \/ pbSkipAll
         THEN /\ PbAdvance
              /\ UNCHANGED <<pbApproveAll, pbSkipAll, pbAns, pbApproved>>
         ELSE IF pbApproveAll
         THEN /\ pbApproved' = Append(pbApproved, pbI)
              /\ pbAns' = [pbAns EXCEPT ![pbI] = "auto"]
              /\ PbAdvance
              /\ UNCHANGED <<pbApproveAll, pbSkipAll>>
         ELSE LET ans == PromptYesNoOne(pbTty, input) IN
              /\ pbAns' = [pbAns EXCEPT ![pbI] = ans]
              /\ pbApproved' = IF ans \in {"y", "a"}
                               THEN Append(pbApproved, pbI) ELSE pbApproved
              /\ pbApproveAll' = (ans = "a")
              /\ pbSkipAll' = (ans = "s")
              /\ IF ans = "q" THEN pbPc' = "apply" /\ UNCHANGED pbI
                 ELSE PbAdvance
    /\ UNCHANGED <<pbMode, pbTty, pbN, pbLetter, pbPage, pbCalls, pbLast,
                   pbWritten, pbOthers>>

\* if updates_approved: _parallel_update_plants(updates_approved, ...)
PbApply ==
    /\ pbPc = "apply"
    /\ pbWritten' = Range(pbApproved)
    /\ pbPc' = "done"
    /\ UNCHANGED <<pbMode, pbTty, pbN, pbI, pbLetter, pbPage, pbCalls,
                   pbLast, pbApproveAll, pbSkipAll, pbAns, pbApproved,
                   pbOthers>>

NextPb ==
    \/ PbCollect
    \/ PbDiscoverStart
    \/ PbDiscoverPage
    \/ PbSearch
    \/ PbDetail
    \/ PbPropose
    \/ PbApply

SpecPb == InitPb /\ [][NextPb]_vars

\* C31: in enrich_from_plantbook and _discover_pb_then_match_db, between
\* any two successive HTTP calls to the Plantbook registry a
\* PLANTBOOK_RATE_DELAY pause occurs, on every path including the paths
\* where a call raises an error.
C31_PauseBetweenCalls == [][pbCalls' # pbCalls => pbLast # "call"]_vars

\* C35: every display-name update applied by enrich_from_plantbook was
\* approved: answered y or a at its own prompt, or proposed after an
\* earlier a.  After an s answer no further update is approved; after q no
\* further candidate is examined and the updates approved so far are still
\* written; with a non-interactive input no update is approved; approve_all
\* and skip_all are never both set.
C35_OnlyApprovedWritten ==
    /\ \A i \in pbWritten \cup Range(pbApproved) :
           \/ pbAns[i] \in {"y", "a"}
           \/ pbAns[i] = "auto" /\ \E j \in 1..(i - 1) : pbAns[j] = "a"
    /\ \A j \in DOMAIN pbAns :
           pbAns[j] = "s" =>
               \A i \in (j + 1)..Len(pbAns) : i \notin Range(pbApproved)
    /\ \A j \in DOMAIN pbAns :
           pbAns[j] = "q" =>
               /\ pbI = j
               /\ pbPc \in {"apply", "done"}
               /\ \A i \in (j + 1)..Len(pbAns) : pbAns[i] = "none"
    /\ (pbPc = "done" /\ pbN > 0) => pbWritten = Range(pbApproved)
    /\ ~pbTty => pbApproved = <<>>
    /\ ~(pbApproveAll /\ pbSkipAll)

\* a finished run in which the first candidate was answered a, the second
\* was approved without a prompt, and both updates were written
C35_Witness ==
    /\ pbPc = "done"
    /\ pbN = 2
    /\ pbAns = <<"a", "auto">>
    /\ pbWritten = {1, 2}

\* the name holds a rank-label word as a whole whitespace-separated word
HasWholeRankWord(name) ==
    \E i \in 1..Len(Split(LowerStr(name))) :
        \E w \in RankLabelWords : Split(LowerStr(name))[i] = <<w>>

\* C33: _pick_score subtracts 3 exactly when the name contains one of the
\* words family, genus, order, group, aggregate or complex as a whole word
\* (case-insensitive), wherever the word stands in the name including as
\* its first word, and subtracts nothing for a name in which these letters
\* occur only as part of a longer word.
C33_PenaltyOnWholeWord ==
    scPc \in {"scored", "again", "done"} =>
        scScore = C24_Sum - (IF HasWholeRankWord(scName) THEN 3 ELSE 0)

(***************************************************************************)
(* Two successive runs of one enrichment pass over one entity: the first   *)
(* run writes the display name it stages to the store, the second run,     *)
(* with force unset, reads the store and the same sources again.           *)
(***************************************************************************)
\* what a pass stages for an entity it has selected
Stage(pass, sci, name, force, best, setDisplay, sci2raw, approve) ==
    CASE pass = "dwca" -> StageDwca(sci, name, force, best, setDisplay)
      [] pass = "plantbook" ->
             StagePlantbook(sci, name, force, best, setDisplay, sci2raw,
                            approve)
      [] pass = "gbif" -> StageGbif(sci, name, best)
      [] pass = "wikidata" -> StageWikidata(sci, best, setDisplay)
      [] pass = "usda" -> StageUsda(sci, name, best, setDisplay)
      [] OTHER -> StageInat(sci, name, best, setDisplay)

\* the display name a run writes for the entity, or None
RunUpdate(pass, sci, name, force, best, setDisplay, sci2raw, approve) ==
    IF Gate(pass, sci, name, force)
    THEN Stage(pass, sci, name, force, best, setDisplay, sci2raw,
               approve).update
    ELSE None

InitRerun ==
    /\ rrPc = "first"
    /\ rrPass \in {"dwca", "plantbook", "gbif", "wikidata", "inat", "itis",
                   "usda"}
    /\ rrForce \in (IF rrPass \in {"dwca", "plantbook"} THEN BOOLEAN
                    ELSE {FALSE})
    /\ rrSetDisplay \in (IF rrPass = "gbif" THEN {TRUE} ELSE BOOLEAN)
    /\ rrSci \in SciUniverse
    /\ rrName \in NameUniverse
    /\ rrAvail \in AvailUniverse
    /\ rrSci2raw \in (IF rrPass = "plantbook" THEN { <<>>, <<"c">> }
                      ELSE { <<>> })
    /\ rrWrote = FALSE
    /\ rrSelected2 = FALSE
    /\ rrUpdate2 = None
    /\ RerunOthersIdle

\* the first run: gate, stage, and the write of the staged display name
RerunFirst ==
    /\ rrPc = "first"
    /\ \E approve \in BOOLEAN :
         LET upd == RunUpdate(rrPass, rrSci, rrName, rrForce, rrAvail,
                              rrSetDisplay, rrSci2raw, approve)
         IN  IF upd = None
             THEN rrPc' = "done" /\ UNCHANGED <<rrName, rrWrote>>
             ELSE rrPc' = "second" /\ rrName' = upd /\ rrWrote' = TRUE
    /\ UNCHANGED <<rrPass, rrForce, rrSetDisplay, rrSci, rrAvail, rrSci2raw,
                   rrSelected2, rrUpdate2, rerunOthers>>

\* the second run, with force unset, over the store the first run left
RerunSecond ==
    /\ rrPc = "second"
    /\ rrSelected2' = Gate(rrPass, rrSci, rrName, FALSE)
    /\ \E approve \in BOOLEAN :
         LET upd == RunUpdate(rrPass, rrSci, rrName, FALSE, rrAvail,
                              rrSetDisplay, rrSci2raw, approve)
         IN  /\ rrUpdate2' = upd
             /\ rrName' = IF upd = None THEN rrName ELSE upd
    /\ rrPc' = "done"
    /\ UNCHANGED <<rrPass, rrForce, rrSetDisplay, rrSci, rrAvail, rrSci2raw,
                   rrWrote, rerunOthers>>

NextRerun ==
    \/ RerunFirst
    \/ RerunSecond

SpecRerun == InitRerun /\ [][NextRerun]_vars

\* C36: after an enrichment run has written a display name for an entity,
\* a second run with force unset over the resulting store does not select
\* that entity again and writes no display-name update for it.
C36_SecondRunLeavesEntity ==
    (rrPc = "done" /\ rrWrote) => (~rrSelected2 /\ rrUpdate2 = None)

(***************************************************************************)
(* supabase_scrub with --ids or --ids-file: the main loop takes the ids    *)
(* above the cursor in sorted order, a batch at a time.  Ids are numbers   *)
(* here, compared as the id strings are.                                   *)
(***************************************************************************)
MaxScrubIds == 3

MaxScrubBatch == 3

ScrubIdUniverse == 1..MaxScrubIds

\* fetch_target_ids with explicit ids: the ids above after_id, sorted, cut
\* to the batch size
FetchTargetIds(explicit_ids, batch, after_id) ==
    LET slice_ids == SortSeq(SelectSeq(explicit_ids,
                                       LAMBDA i : after_id = 0 \/ i > after_id),
                             LAMBDA a, b : a < b)
    IN  SubSeq(slice_ids, 1, Min(batch, Len(slice_ids)))

InitScrub ==
    /\ scrPc = "loop"
    /\ scrIds \in UNION { [1..n -> ScrubIdUniverse] : n \in 0..MaxScrubIds }
    /\ scrBatch \in 1..MaxScrubBatch
    /\ scrCursor = 0
    /\ scrCalls = <<>>
    /\ ScrubOthersIdle

\* one turn of the main loop with a batch of ids: update_batch, then the
\* stop test `cursor == explicit_ids[-1]`
ScrubBatch ==
    /\ scrPc = "loop"
    /\ LET ids == FetchTargetIds(scrIds, scrBatch, scrCursor) IN
       /\ ids # <<>>
       /\ scrCursor' = ids[Len(ids)]
       /\ scrCalls' = Append(scrCalls, ids)
       /\ scrPc' = IF ids[Len(ids)] = scrIds[Len(scrIds)] THEN "done"
                   ELSE "loop"
    /\ UNCHANGED <<scrIds, scrBatch, scrubOthers>>

\* if not ids: break
ScrubEnd ==
    /\ scrPc = "loop"
    /\ FetchTargetIds(scrIds, scrBatch, scrCursor) = <<>>
    /\ scrPc' = "done"
    /\ UNCHANGED <<scrIds, scrBatch, scrCursor, scrCalls, scrubOthers>>

NextScrub ==
    \/ ScrubBatch
    \/ ScrubEnd

SpecScrub == InitScrub /\ [][NextScrub]_vars

\* the number of calls of update_batch whose id list holds id
ScrubPassed(id) ==
    Cardinality({ k \in DOMAIN scrCalls : id \in Range(scrCalls[k]) })

\* C37: in the main loop of supabase_scrub with an explicit id list, every
\* distinct id of the list is passed to update_batch exactly once and the
\* loop then stops, for every batch size >= 1 and every order of the ids in
\* the list.
C37_EachIdOnce ==
    scrPc = "done" => \A id \in Range(scrIds) : ScrubPassed(id) = 1

(***************************************************************************)
(* enrich_itis._batch_itis: asyncio.gather runs one resolve_one task per   *)
(* row on one event loop.  A task runs without interruption from one await *)
(* that suspends to the next: a cache hit and a free semaphore do not      *)
(* suspend, a remote call and a full semaphore do.                         *)
(***************************************************************************)
MaxItisRows == 2

MaxTsn == 2

\* ITIS_CONCURRENCY, set below the batch length so that tasks wait for sem
ItisConcurrency == MaxItisRows - 1

ItisNames == {"a", "b"}

ItisTsns == 1..MaxTsn

ItisTasks == 1..MaxItisRows

EmptyCache == [x \in {} |-> 0]

CachePut(cache, k, v) == [x \in (DOMAIN cache) \cup {k} |-> IF x = k THEN v ELSE cache[x]]

\* The run of task t from the point pc up to its next suspension.  s holds
\* the task's locals and the shared caches, semaphore and request logs.
\*   call_tsn: tsn_for(name) from its first line
\*   have_tsn: resolve_one after `await tsn_for(..)`: commons_for_tsn
\*   have_com: resolve_one after the commons are known (com)
RECURSIVE ItisRun(_, _, _)
ItisRun(s, pc, com) ==
    CASE pc = "call_tsn" ->
           LET name == Head(s.names) IN
           IF name \in DOMAIN s.tsnCache
             THEN ItisRun([s EXCEPT !.tsn = s.tsnCache[name]], "have_tsn", FALSE)
           ELSE IF s.sem > 0
             THEN [s EXCEPT !.pc = "wait_tsn", !.sem = s.sem - 1,
                            !.search = Append(s.search, name)]
           ELSE [s EXCEPT !.pc = "wait_sem_tsn"]
      [] pc = "have_tsn" ->
           IF s.tsn = 0 THEN ItisRun(s, "have_com", FALSE)
           ELSE IF s.tsn \in DOMAIN s.comCache
             THEN ItisRun(s, "have_com", s.comCache[s.tsn])
           ELSE IF s.sem > 0
             THEN [s EXCEPT !.pc = "wait_com", !.sem = s.sem - 1,
                            !.common = Append(s.common, s.tsn)]
           ELSE [s EXCEPT !.pc = "wait_sem_com"]
      [] pc = "have_com" ->
           IF com THEN [s EXCEPT !.pc = "done", !.chosen = TRUE]
           ELSE IF Len(s.names) > 1
             THEN ItisRun([s EXCEPT !.names = Tail(s.names)], "call_tsn", FALSE)
           ELSE [s EXCEPT !.pc = "done"]

ItisState(t) ==
    [pc |-> itPc[t], names |-> itNames[t], tsn |-> itTsn[t], chosen |-> itChosen[t],
     tsnCache |-> itTsnCache, comCache |-> itComCache, sem |-> itSem,
     search |-> itSearchSent, common |-> itCommonSent]

ItisSet(t, s) ==
    /\ itPc' = [itPc EXCEPT ![t] = s.pc]
    /\ itNames' = [itNames EXCEPT ![t] = s.names]
    /\ itTsn' = [itTsn EXCEPT ![t] = s.tsn]
    /\ itChosen' = [itChosen EXCEPT ![t] = s.chosen]
    /\ itTsnCache' = s.tsnCache
    /\ itComCache' = s.comCache
    /\ itSem' = s.sem
    /\ itSearchSent' = s.search
    /\ itCommonSent' = s.common
    /\ UNCHANGED <<itRemoteTsn, itRemoteCom, itisOthers>>

\* need_rows with their scientific names and up to one scientific synonym
\* each (syn_map), and what ITIS knows
InitItis ==
    /\ itPc = [t \in ItisTasks |-> "new"]
    /\ \E sci \in [ItisTasks -> ItisNames], syn \in [ItisTasks -> ItisNames \cup {""}] :
         itNames = [t \in ItisTasks |->
                      IF syn[t] = "" THEN <<sci[t]>> ELSE <<sci[t], syn[t]>>]
    /\ itTsn = [t \in ItisTasks |-> 0]
    /\ itChosen = [t \in ItisTasks |-> FALSE]
    /\ itTsnCache = EmptyCache
    /\ itComCache = EmptyCache
    /\ itSem = ItisConcurrency
    /\ itSearchSent = <<>>
    /\ itCommonSent = <<>>
    /\ itRemoteTsn \in [ItisNames -> ItisTsns \cup {0}]
    /\ itRemoteCom \in [ItisTsns -> BOOLEAN]
    /\ ItisOthersIdle

\* gather starts the tasks in row order; each runs to its first suspension
ItisStart(t) ==
    /\ itPc[t] = "new"
    /\ \A u \in ItisTasks : u < t => itPc[u] # "new"
    /\ ItisSet(t, ItisRun(ItisState(t), "call_tsn", FALSE))

\* `async with sem` of a waiting task gets a slot: the remote call is sent
\* without another look at the cache
ItisSemWake(t) ==
    /\ itPc[t] \in {"wait_sem_tsn", "wait_sem_com"}
    /\ itSem > 0
    /\ LET s == ItisState(t) IN
       ItisSet(t, IF itPc[t] = "wait_sem_tsn"
                    THEN [s EXCEPT !.pc = "wait_tsn", !.sem = s.sem - 1,
                                   !.search = Append(s.search, Head(s.names))]
                    ELSE [s EXCEPT !.pc = "wait_com", !.sem = s.sem - 1,
                                   !.common = Append(s.common, s.tsn)])

\* _itis_search_tsn answers: the slot is freed, the cache is filled and
\* resolve_one goes on
ItisSearchReply(t) ==
    /\ itPc[t] = "wait_tsn"
    /\ \A u \in ItisTasks : itPc[u] # "new"
    /\ LET s == ItisState(t)
           name == Head(s.names)
           tsn == itRemoteTsn[name]
       IN  ItisSet(t, ItisRun([s EXCEPT !.sem = s.sem + 1, !.tsn = tsn,
                                        !.tsnCache = CachePut(s.tsnCache, name, tsn)],
                              "have_tsn", FALSE))

\* _itis_common_en answers
ItisCommonReply(t) ==
    /\ itPc[t] = "wait_com"
    /\ \A u \in ItisTasks : itPc[u] # "new"
    /\ LET s == ItisState(t)
           arr == itRemoteCom[s.tsn]
       IN  ItisSet(t, ItisRun([s EXCEPT !.sem = s.sem + 1,
                                        !.comCache = CachePut(s.comCache, s.tsn, arr)],
                              "have_com", arr))

NextItis ==
    \/ \E t \in ItisTasks : ItisStart(t)
    \/ \E t \in ItisTasks : ItisSemWake(t)
    \/ \E t \in ItisTasks : ItisSearchReply(t)
    \/ \E t \in ItisTasks : ItisCommonReply(t)

SpecItis == InitItis /\ [][NextItis]_vars

Occurrences(seq, x) == Cardinality({ i \in DOMAIN seq : seq[i] = x })

\* C38: within one batch each name is sent to the search endpoint at most
\* once and each tsn to the common-names endpoint at most once, whatever the
\* interleaving of the resolve_one tasks
C38_NoDuplicateLookups ==
    /\ \A name \in ItisNames : Occurrences(itSearchSent, name) <= 1
    /\ \A tsn \in ItisTsns : Occurrences(itCommonSent, tsn) <= 1

=============================================================================
